---- MODULE Spec2Model ----
(***************************************************************************)
(* Session layer of beach-buggy-racing: the room registry (RoomManager),   *)
(* Room and Player (src/server/roomManager.js), the socket handlers that   *)
(* drive them (src/server/server.js), the race state (GameState,           *)
(* src/server/gameState.js), the input validator and the input buffer of a *)
(* client (InputValidator, InputBuffer, src/unnamed/part_000) and its      *)
(* latency monitor (LatencyMonitor, src/unnamed/part_001).                 *)
(*                                                                         *)
(* Node runs every handler to completion, so one handler is one action.    *)
(* Strings of digits (room codes) are sequences of digits; other strings   *)
(* are TLA+ strings.  A JS Map is a sequence of entries in insertion       *)
(* order, which is the order Map iteration visits them in.                 *)
(* Clients are taken to pass the acknowledgement callback on the messages  *)
(* that have one (as src/public/js/shared/connection.js does); playerName, *)
(* Room.id and the Player fields no handler below reads are left out.      *)
(***************************************************************************)
EXTENDS Integers, Sequences, FiniteSets

VARIABLES
    connected,  \* socket ids whose connection is live
    closed,     \* socket ids whose 'disconnect' has been handled
    now,        \* Date.now(), in ms since the server started
    rooms,      \* roomManager.rooms: entries in insertion order
    ack,        \* what the last handler passed to its callback
    emits,      \* what the last handler emitted, in order
    returned,   \* what the last direct call of a method returned
    gameState,  \* a GameState object
    lastTimestamp,  \* InputValidator.lastTimestamp of one sender
    inputBuffer,    \* an InputBuffer object
    latencyMonitor, \* a LatencyMonitor object
    timers,         \* the interval timers of the page: timers[id] is TRUE
                    \* while the timer with that id is active
    probes,         \* the pings sent and not yet answered: their start times
    calls           \* the observers the last recordPing invoked, in order

vars == <<connected, closed, now, rooms, ack, emits, returned,
          gameState, lastTimestamp,
          inputBuffer, latencyMonitor, timers, probes, calls>>

\* the state of the server, but for what a direct call returned
serverVars == <<connected, closed, now, rooms, ack, emits,
                gameState, lastTimestamp>>
\* the state of the page of one client
clientVars == <<inputBuffer, latencyMonitor, timers, probes, calls>>

----------------------------------------------------------------------------
(* Bounds of the model *)

NumSockets == 2        \* Spec: socket ids 1..NumSockets can connect
RegSockets == 2        \* SpecRegistry: socket ids that can connect
MaxTicks == 2          \* SpecRegistry: the clock advances this many times
MultiSockets == 2      \* SpecMulti: socket ids that can connect
LobbySockets == 5      \* SpecLobby: socket ids that can connect
RoomSockets == 4       \* SpecRoom: socket ids used on the Room
RacePlayers == 2       \* SpecRace: initialize is called for up to this many
LapPlayers == 2        \* SpecLap: initialize is called for up to this many
FinishPlayers == 1     \* SpecFinish: initialize is called for up to this many
MaxUpdates == 1        \* SpecRace: update is called this often
MaxLap == 4            \* SpecFinish: checkpoints are reported up to this lap
MaxAccepted == 2       \* SpecValidator: accepted timestamps stay below this
                       \* many maximal deltas
InputSockets == 2      \* SpecInput: socket ids that can connect
RaceLap == 1           \* SpecRace: checkpoints are reported up to this lap
LapsPlayers == 2       \* SpecLaps: initialize is called for up to this many
EndPlayers == 1        \* SpecEnd: initialize is called for up to this many
MaxAdds == 61          \* SpecBuffer: addInput is called this often between
                       \* two clears
SweepSockets == 1      \* SpecSweep: socket ids that can connect
SmallBuffer == 2       \* SpecBuffer: the bufferSize that is not the default
MaxTimers == 3         \* SpecMonitor: setInterval is called this often
MaxProbes == 2         \* SpecMonitor: pings in flight
MaxCallbacks == 3      \* SpecObservers: onUpdate is called this often
MaxSamples == 2        \* SpecObservers, SpecQuality: recordPing is called
                       \* this often between two resets
MaxLatency == 32       \* SpecWindow: the longest round trip, in milliseconds

(* Program constants *)

maxAttempts == 100         \* roomManager.js:15
CodeBase == 100000         \* roomManager.js:19
CodeRange == 900000        \* roomManager.js:19
MaxPlayers == 4            \* server.js:207
maxAgeMinutes == 60        \* server.js:553
maxLaps == 3               \* gameState.js:11
checkpointsPerLap == 5     \* gameState.js:132
steeringMin == -1          \* part_000:918
steeringMax == 1           \* part_000:918
timestampDeltaMin == 0     \* part_000:920
timestampDeltaMax == 1000  \* part_000:920
bufferSizeDefault == 60    \* part_000:821
maxSamples == 30           \* part_001:10

Null == "<null>"           \* JS null
DefaultGameMode == "race"  \* roomManager.js:117
Maps == {"beach"}          \* values a client sends as mapId
GameModes == {"race", "battle"}   \* values a client sends as gameMode

----------------------------------------------------------------------------
(* Number.prototype.toString for a natural number: its decimal digits *)
RECURSIVE toString(_)
toString(n) ==
    IF n < 10 THEN <<n>> ELSE Append(toString(n \div 10), n % 10)

(* Math.random() is modelled by d = floor(u * 900000), 0 <= d < 900000, so *)
(* that Math.floor(100000 + u * 900000) = 100000 + d.  The draws of the    *)
(* model are the lowest and the highest one.                               *)
DrawSpace == {0, CodeRange - 1}

(* The successive draws of one generateRoomCode call, which makes at most *)
(* maxAttempts + 1 of them: n times a, then b                             *)
DrawSeq(n, a, b) == [k \in 1..(maxAttempts + 1) |-> IF k <= n THEN a ELSE b]
PrefixLens == {1, maxAttempts - 1, maxAttempts}
\* the draws that are the same every time
DirectDraws == {DrawSeq(0, b, b) : b \in DrawSpace}
DrawInputs ==
    DirectDraws
    \cup {DrawSeq(x[1], x[2], x[3]) :
            x \in {y \in PrefixLens \X DrawSpace \X DrawSpace : y[2] # y[3]}}

\* Math.floor(100000 + Math.random() * 900000).toString(), tabulated
CodeTable == [d \in DrawSpace |-> toString(CodeBase + d)]
CodeOf(d) == CodeTable[d]
AllCodes == {CodeOf(d) : d \in DrawSpace}
\* the one code the specifications of a single room draw
OneDraw == CHOOSE d \in DrawSpace : \A e \in DrawSpace : d <= e
OneCode == CodeOf(OneDraw)
LobbyDraws == DrawSeq(0, OneDraw, OneDraw)
\* a room code no draw of the model leads to, and the empty (falsy) one
NoCode == <<0, 0, 0, 0, 0, 0>>
Empty == <<>>

----------------------------------------------------------------------------
(* Map helpers over the registry *)

Keys(rs) == {rs[i].roomCode : i \in 1..Len(rs)}

\* index of the entry with that key, 0 when absent
IndexOf(rs, code) ==
    IF \E i \in 1..Len(rs) : rs[i].roomCode = code
    THEN CHOOSE i \in 1..Len(rs) : rs[i].roomCode = code
    ELSE 0

\* Map.prototype.set: replaces in place, or appends
MapSet(rs, code, room) ==
    IF IndexOf(rs, code) # 0
    THEN [rs EXCEPT ![IndexOf(rs, code)] = room]
    ELSE Append(rs, room)

----------------------------------------------------------------------------
(* JavaScript values.  A number is the fraction n/d (d > 0, lowest terms)  *)
(* or NaN; every value has the same fields, of which its type uses some.   *)

Num(n, d) == [t |-> "number", nan |-> FALSE, n |-> n, d |-> d,
              s |-> "", b |-> FALSE]
NaN == [t |-> "number", nan |-> TRUE, n |-> 0, d |-> 1, s |-> "", b |-> FALSE]
Str(str) == [t |-> "string", nan |-> FALSE, n |-> 0, d |-> 1,
             s |-> str, b |-> FALSE]
Bool(bool) == [t |-> "boolean", nan |-> FALSE, n |-> 0, d |-> 1,
               s |-> "", b |-> bool]
Undefined == [t |-> "undefined", nan |-> FALSE, n |-> 0, d |-> 1,
              s |-> "", b |-> FALSE]
JsNull == [t |-> "null", nan |-> FALSE, n |-> 0, d |-> 1,
           s |-> "", b |-> FALSE]

\* a function value: its name, and whether a call of it throws
Fn(name, throws) == [t |-> "function", nan |-> FALSE, n |-> 0, d |-> 1,
                     s |-> name, b |-> throws]
\* an object other than null
Obj(name) == [t |-> "object", nan |-> FALSE, n |-> 0, d |-> 1,
              s |-> name, b |-> FALSE]

\* typeof v
typeof(v) == IF v.t = "null" THEN "object" ELSE v.t

\* x < y for two numbers: false when either is NaN
Lt(x, y) == ~x.nan /\ ~y.nan /\ x.n * y.d < y.n * x.d

\* x - y for two numbers
Minus(x, y) ==
    IF x.nan \/ y.nan THEN NaN ELSE Num(x.n * y.d - y.n * x.d, x.d * y.d)

\* ToBoolean: Boolean(v), and the test of v || w
Truthy(v) ==
    CASE v.t = "number" -> ~v.nan /\ v.n # 0
      [] v.t = "string" -> v.s # ""
      [] v.t = "boolean" -> v.b
      [] v.t \in {"function", "object"} -> TRUE
      [] OTHER -> FALSE

\* v || w
OrElse(v, w) == IF Truthy(v) THEN v ELSE w

\* the strings of the model that are numerals, with their values
Numerals == [s \in {"2"} |-> Num(2, 1)]

\* ToNumber: Number(v), and what Math.max and Math.min do to an argument
ToNumber(v) ==
    CASE v.t = "number" -> v
      [] v.t = "string" ->
            IF v.s = "" THEN Num(0, 1)
            ELSE IF v.s \in DOMAIN Numerals THEN Numerals[v.s] ELSE NaN
      [] v.t = "boolean" -> IF v.b THEN Num(1, 1) ELSE Num(0, 1)
      [] v.t = "null" -> Num(0, 1)
      [] OTHER -> NaN

\* Math.max(x, y) and Math.min(x, y)
MathMax(x, y) ==
    LET a == ToNumber(x)
        b == ToNumber(y)
    IN IF a.nan \/ b.nan THEN NaN ELSE IF Lt(a, b) THEN b ELSE a

MathMin(x, y) ==
    LET a == ToNumber(x)
        b == ToNumber(y)
    IN IF a.nan \/ b.nan THEN NaN ELSE IF Lt(b, a) THEN b ELSE a

\* an input object {steering, brake, timestamp}; an absent field is Undefined
Input(steering, brake, timestamp) ==
    [steering |-> steering, brake |-> brake, timestamp |-> timestamp]

----------------------------------------------------------------------------
(* Player and Room *)

\* lastInputSequence and lastInputTime are undefined until the sequenced
\* input handler sets them
Player(socketId, playerNumber, isHost, t) ==
    [socketId |-> socketId, playerNumber |-> playerNumber, isHost |-> isHost,
     input |-> Input(Num(0, 1), Bool(FALSE), Num(t, 1)),
     lastInputSequence |-> Undefined, lastInputTime |-> Undefined]

Room(roomCode, hostSocketId, t) ==
    [roomCode |-> roomCode, hostSocketId |-> hostSocketId, players |-> <<>>,
     selectedMap |-> Null, gameMode |-> DefaultGameMode,
     gameStarted |-> FALSE, createdAt |-> t]

hasPlayer(players, socketId) ==
    \E i \in 1..Len(players) : players[i].socketId = socketId

\* index of the first player with that socket id, 0 when there is none
PlayerIndex(players, socketId) ==
    IF hasPlayer(players, socketId)
    THEN CHOOSE i \in 1..Len(players) :
            /\ players[i].socketId = socketId
            /\ \A j \in 1..(i - 1) : players[j].socketId # socketId
    ELSE 0

\* addPlayer that numbers the new player by the length before the push
addPlayer_ZeroBased(players, socketId, t) ==
    IF hasPlayer(players, socketId)
    THEN [players |-> players,
          player |-> players[PlayerIndex(players, socketId)]]
    ELSE LET playerNumber == Len(players)
             player == Player(socketId, playerNumber, playerNumber = 1, t)
         IN [players |-> Append(players, player), player |-> player]

\* addPlayer that does not look for the connection among the players
addPlayer_Duplicate(players, socketId, t) ==
    LET playerNumber == Len(players) + 1
        player == Player(socketId, playerNumber, playerNumber = 1, t)
    IN [players |-> Append(players, player), player |-> player]

\* Room.addPlayer: the new player list and the player returned
addPlayer(players, socketId, t) ==
    IF hasPlayer(players, socketId)
    THEN [players |-> players,
          player |-> players[PlayerIndex(players, socketId)]]
    ELSE LET playerNumber == Len(players) + 1
             player == Player(socketId, playerNumber, playerNumber = 1, t)
         IN [players |-> Append(players, player), player |-> player]

\* removePlayer that leaves the numbers and flags of the others as they were
removePlayer_Stale(players, socketId) ==
    LET index == PlayerIndex(players, socketId)
    IN IF index # 0
       THEN [players |-> [i \in 1..(Len(players) - 1) |->
                            IF i < index THEN players[i] ELSE players[i + 1]],
             found |-> TRUE,
             player |-> players[index]]
       ELSE [players |-> players, found |-> FALSE]

\* removePlayer, had it filled the gap with the last player
removePlayer_Swap(players, socketId) ==
    LET index == PlayerIndex(players, socketId)
    IN IF index # 0
       THEN LET rest == [i \in 1..(Len(players) - 1) |->
                            IF i = index THEN players[Len(players)]
                            ELSE players[i]]
            IN [players |-> [i \in 1..Len(rest) |->
                                [rest[i] EXCEPT !.playerNumber = i,
                                                !.isHost = (i = 1)]],
                found |-> TRUE,
                player |-> players[index]]
       ELSE [players |-> players, found |-> FALSE]

\* Room.removePlayer: the new player list, and whether and whom it removed
removePlayer(players, socketId) ==
    LET index == PlayerIndex(players, socketId)
    IN IF index # 0
       THEN LET rest == [i \in 1..(Len(players) - 1) |->
                            IF i < index THEN players[i] ELSE players[i + 1]]
            IN [players |-> [i \in 1..Len(rest) |->
                                [rest[i] EXCEPT !.playerNumber = i,
                                                !.isHost = (i = 1)]],
                found |-> TRUE,
                player |-> players[index]]
       ELSE [players |-> players, found |-> FALSE]

----------------------------------------------------------------------------
(* RoomManager *)

\* the loop that leaves at the cap without throwing
RECURSIVE GenLoop_NoThrow(_, _, _)
GenLoop_NoThrow(keys, in, attempts) ==
    IF attempts + 1 > maxAttempts
    THEN [threw |-> FALSE, code |-> CodeTable[in[attempts + 1]],
          attempts |-> attempts + 1]
    ELSE IF CodeTable[in[attempts + 1]] \in keys
         THEN GenLoop_NoThrow(keys, in, attempts + 1)
         ELSE [threw |-> FALSE, code |-> CodeTable[in[attempts + 1]],
               attempts |-> attempts + 1]

\* the do-while loop of generateRoomCode, `attempts` draws having been made
RECURSIVE GenLoop(_, _, _)
GenLoop(keys, in, attempts) ==
    IF attempts + 1 > maxAttempts
    THEN [threw |-> TRUE, attempts |-> attempts + 1]
    ELSE IF CodeTable[in[attempts + 1]] \in keys
         THEN GenLoop(keys, in, attempts + 1)
         ELSE [threw |-> FALSE, code |-> CodeTable[in[attempts + 1]],
               attempts |-> attempts + 1]

\* generateRoomCode that returns its first draw, taken or not
generateRoomCode_NoCheck(rs, in) ==
    [threw |-> FALSE, code |-> CodeOf(in[1]), attempts |-> 1]

\* RoomManager.generateRoomCode, for the draws `in`
generateRoomCode(rs, in) == GenLoop(Keys(rs), in, 0)

\* createRoom that builds the Room without its host (socket id 0 is no socket)
createRoom_NoHost(rs, hostSocketId, in, t) ==
    LET g == generateRoomCode(rs, in)
    IN IF g.threw
       THEN [rooms |-> rs, threw |-> TRUE]
       ELSE [rooms |-> MapSet(rs, g.code, Room(g.code, 0, t)),
             threw |-> FALSE, roomCode |-> g.code]

\* RoomManager.createRoom: the registry afterwards and the outcome
createRoom(rs, hostSocketId, in, t) ==
    LET g == generateRoomCode(rs, in)
    IN IF g.threw
       THEN [rooms |-> rs, threw |-> TRUE]
       ELSE [rooms |-> MapSet(rs, g.code, Room(g.code, hostSocketId, t)),
             threw |-> FALSE, roomCode |-> g.code]

\* RoomManager.deleteRoom
deleteRoom(rs, code) == SelectSeq(rs, LAMBDA r : r.roomCode # code)

\* RoomManager.findRoomBySocketId: index of the first match, 0 for null
findRoomBySocketId(rs, socketId) ==
    LET Match(i) == \/ rs[i].hostSocketId = socketId
                    \/ hasPlayer(rs[i].players, socketId)
    IN IF \E i \in 1..Len(rs) : Match(i)
       THEN CHOOSE i \in 1..Len(rs) :
                Match(i) /\ \A j \in 1..(i - 1) : ~Match(j)
       ELSE 0

\* the test that does not look at the players
Inactive_Occupied(r, t) == t - r.createdAt > maxAgeMinutes * 60 * 1000

\* RoomManager.cleanupInactiveRooms
Inactive(r, t) ==
    /\ t - r.createdAt > maxAgeMinutes * 60 * 1000
    /\ Len(r.players) = 0

cleanupInactiveRooms(rs, t) ==
    [rooms |-> SelectSeq(rs, LAMBDA r : ~Inactive(r, t)),
     cleanedCount |-> Cardinality({i \in 1..Len(rs) : Inactive(rs[i], t)})]

----------------------------------------------------------------------------
(* Handlers of server.js *)

NoAck == [called |-> FALSE]
NoReturn == [op |-> "none"]
Fail(error) == [called |-> TRUE, success |-> FALSE, error |-> error]

Emit(event, to, data) == [event |-> event, to |-> to, data |-> data]

\* io.on('connection'): a socket with a fresh id connects
Connect(n) ==
    LET id == Cardinality(connected \cup closed) + 1
    IN /\ id <= n
       /\ connected' = connected \cup {id}
       /\ ack' = NoAck
       /\ emits' = <<>>
       /\ UNCHANGED <<closed, now, rooms, returned, gameState, lastTimestamp,
                clientVars>>

\* time passes, an hour at a time
TickMs == maxAgeMinutes * 60 * 1000
Tick ==
    /\ now < MaxTicks * TickMs
    /\ now' = now + TickMs
    /\ ack' = NoAck
    /\ emits' = <<>>
    /\ UNCHANGED <<connected, closed, rooms, returned, gameState, lastTimestamp,
                clientVars>>

\* socket.on('createRoom'); of the acknowledgement, the random roomId and the
\* controllerUrl built from roomCode are left out
OnCreateRoom(s, in) ==
    /\ s \in connected
    /\ LET c == createRoom(rooms, s, in, now)
       IN /\ rooms' = c.rooms
          /\ ack' = IF c.threw
                    THEN Fail("Failed to generate unique room code")
                    ELSE [called |-> TRUE, success |-> TRUE,
                          roomCode |-> c.roomCode]
    /\ emits' = <<>>
    /\ UNCHANGED <<connected, closed, now, returned, gameState, lastTimestamp,
                clientVars>>

\* socket.on('getRoomState')
OnGetRoomState(s, code) ==
    /\ s \in connected
    /\ LET i == IndexOf(rooms, code)
       IN ack' = IF i = 0
                 THEN Fail("Room not found")
                 ELSE [called |-> TRUE, success |-> TRUE, room |-> rooms[i]]
    /\ emits' = <<>>
    /\ UNCHANGED <<connected, closed, now, rooms, returned, gameState, lastTimestamp,
                clientVars>>

\* socket.on('startGame')
OnStartGame(s, code) ==
    /\ s \in connected
    /\ LET i == IndexOf(rooms, code)
       IN IF i = 0
          THEN /\ emits' = <<>>
               /\ UNCHANGED rooms
          ELSE /\ rooms' = [rooms EXCEPT ![i].gameStarted = TRUE]
               /\ emits' = <<Emit("gameStarting", code,
                                  [countdown |-> 3, timestamp |-> now])>>
    /\ ack' = NoAck
    /\ UNCHANGED <<connected, closed, now, returned, gameState, lastTimestamp,
                clientVars>>

\* the capacity test that lets a fifth player in
RoomFull_OffByOne(room) == Len(room.players) > MaxPlayers

\* the capacity test of joinRoom
RoomFull(room) == Len(room.players) >= MaxPlayers

\* socket.on('joinRoom')
OnJoinRoom(s, code) ==
    /\ s \in connected
    /\ LET i == IndexOf(rooms, code)
       IN IF code = Empty
          THEN /\ ack' = Fail("Room code required")
               /\ emits' = <<>>
               /\ UNCHANGED rooms
          ELSE IF i = 0
          THEN /\ ack' = Fail("Room not found")
               /\ emits' = <<>>
               /\ UNCHANGED rooms
          ELSE IF RoomFull(rooms[i])
          THEN /\ ack' = Fail("Room is full (max 4 players)")
               /\ emits' = <<>>
               /\ UNCHANGED rooms
          ELSE LET a == addPlayer(rooms[i].players, s, now)
               IN /\ rooms' = [rooms EXCEPT ![i].players = a.players]
                  /\ ack' = [called |-> TRUE, success |-> TRUE,
                             playerNumber |-> a.player.playerNumber,
                             isHost |-> a.player.isHost,
                             roomCode |-> code]
                  /\ emits' = <<Emit("playerJoined", code,
                                     [player |-> a.player,
                                      totalPlayers |-> Len(a.players),
                                      players |-> a.players])>>
    /\ UNCHANGED <<connected, closed, now, returned, gameState, lastTimestamp,
                clientVars>>

\* selectMap that any player of the room may send
OnSelectMap_AnyPlayer(s, code, mapId) ==
    /\ s \in connected
    /\ LET i == IndexOf(rooms, code)
           p == IF i = 0 THEN 0 ELSE PlayerIndex(rooms[i].players, s)
       IN IF i = 0 \/ p = 0
          THEN /\ emits' = <<>>
               /\ UNCHANGED rooms
          ELSE /\ rooms' = [rooms EXCEPT ![i].selectedMap = mapId]
               /\ emits' = <<Emit("mapSelected", code, [mapId |-> mapId])>>
    /\ ack' = NoAck
    /\ UNCHANGED <<connected, closed, now, returned, gameState, lastTimestamp,
                clientVars>>

\* socket.on('selectMap')
OnSelectMap(s, code, mapId) ==
    /\ s \in connected
    /\ LET i == IndexOf(rooms, code)
           p == IF i = 0 THEN 0 ELSE PlayerIndex(rooms[i].players, s)
       IN IF i = 0 \/ p = 0 \/ ~rooms[i].players[p].isHost
          THEN /\ emits' = <<>>
               /\ UNCHANGED rooms
          ELSE /\ rooms' = [rooms EXCEPT ![i].selectedMap = mapId]
               /\ emits' = <<Emit("mapSelected", code, [mapId |-> mapId])>>
    /\ ack' = NoAck
    /\ UNCHANGED <<connected, closed, now, returned, gameState, lastTimestamp,
                clientVars>>

\* socket.on('selectGameMode')
OnSelectGameMode(s, code, gameMode) ==
    /\ s \in connected
    /\ LET i == IndexOf(rooms, code)
           p == IF i = 0 THEN 0 ELSE PlayerIndex(rooms[i].players, s)
       IN IF i = 0 \/ p = 0 \/ ~rooms[i].players[p].isHost
          THEN /\ emits' = <<>>
               /\ UNCHANGED rooms
          ELSE /\ rooms' = [rooms EXCEPT ![i].gameMode = gameMode]
               /\ emits' = <<Emit("gameModeSelected", code,
                                  [gameMode |-> gameMode])>>
    /\ ack' = NoAck
    /\ UNCHANGED <<connected, closed, now, returned, gameState, lastTimestamp,
                clientVars>>

\* validateInput of server.js, for an input received at time t
validateInput(input, t) ==
    LET steering ==
            IF typeof(input.steering) # "number"
            THEN <<"Steering must be a number">>
            ELSE IF Lt(input.steering, Num(-1, 1))
                    \/ Lt(Num(1, 1), input.steering)
            THEN <<"Steering out of range">>
            ELSE IF input.steering.nan
            THEN <<"Steering is NaN">>
            ELSE <<>>
        brake ==
            IF typeof(input.brake) # "boolean"
            THEN <<"Brake must be a boolean">>
            ELSE <<>>
        timestamp ==
            IF typeof(input.timestamp) # "number"
            THEN <<"Timestamp must be a number">>
            ELSE IF Lt(input.timestamp, Num(0, 1))
            THEN <<"Timestamp cannot be negative">>
            ELSE <<>>
        errors == steering \o brake \o timestamp
    IN [valid |-> Len(errors) = 0,
        errors |-> errors,
        sanitized |->
            Input(MathMax(Num(-1, 1),
                          MathMin(Num(1, 1),
                                  OrElse(ToNumber(input.steering), Num(0, 1)))),
                  Bool(Truthy(input.brake)),
                  OrElse(ToNumber(input.timestamp), Num(t, 1)))]

\* socket.to(room.hostSocketId).emit(event, data): to the host's own room,
\* except to the sender
EmitFrom(s, event, to, data) ==
    [event |-> event, to |-> to, data |-> data, except |-> s]

\* socket.on('controllerInput')
OnControllerInput(s, code, input) ==
    /\ s \in connected
    /\ LET i == IndexOf(rooms, code)
           p == IF i = 0 THEN 0 ELSE PlayerIndex(rooms[i].players, s)
       IN IF i = 0 \/ p = 0
          THEN /\ emits' = <<>>
               /\ UNCHANGED rooms
          ELSE /\ rooms' = [rooms EXCEPT ![i].players[p].input = input]
               /\ emits' = <<EmitFrom(s, "playerInput", rooms[i].hostSocketId,
                               [playerNumber |-> rooms[i].players[p].playerNumber,
                                input |-> input,
                                timestamp |-> now])>>
    /\ ack' = NoAck
    /\ UNCHANGED <<connected, closed, now, returned, gameState, lastTimestamp,
                clientVars>>

\* socket.on('controllerInputSequenced')
OnControllerInputSequenced(s, code, input, sequence) ==
    /\ s \in connected
    /\ LET i == IndexOf(rooms, code)
           p == IF i = 0 THEN 0 ELSE PlayerIndex(rooms[i].players, s)
           validation == validateInput(input, now)
       IN IF i = 0 \/ p = 0 \/ ~validation.valid
          THEN /\ emits' = <<>>
               /\ UNCHANGED rooms
          ELSE /\ rooms' = [rooms EXCEPT
                    ![i].players[p].input = validation.sanitized,
                    ![i].players[p].lastInputSequence =
                        OrElse(sequence, Num(0, 1)),
                    ![i].players[p].lastInputTime = Num(now, 1)]
               /\ emits' = <<EmitFrom(s, "playerInputSequenced",
                               rooms[i].hostSocketId,
                               [playerNumber |-> rooms[i].players[p].playerNumber,
                                input |-> validation.sanitized,
                                sequence |-> OrElse(sequence, Num(0, 1)),
                                timestamp |-> now])>>
    /\ ack' = NoAck
    /\ UNCHANGED <<connected, closed, now, returned, gameState, lastTimestamp,
                clientVars>>

\* gameStateUpdate that any connection may send for a room
OnGameStateUpdate_AnySender(s, code, state) ==
    /\ s \in connected
    /\ IF IndexOf(rooms, code) = 0
       THEN emits' = <<>>
       ELSE emits' = <<Emit("gameState", code,
                            [state |-> state, timestamp |-> now])>>
    /\ ack' = NoAck
    /\ UNCHANGED <<connected, closed, now, rooms, returned, gameState, lastTimestamp,
                clientVars>>

\* socket.on('gameStateUpdate')
OnGameStateUpdate(s, code, state) ==
    /\ s \in connected
    /\ IF IndexOf(rooms, code) = 0
       THEN emits' = <<>>
       ELSE IF s # rooms[IndexOf(rooms, code)].hostSocketId
       THEN emits' = <<>>
       ELSE emits' = <<Emit("gameState", code,
                            [state |-> state, timestamp |-> now])>>
    /\ ack' = NoAck
    /\ UNCHANGED <<connected, closed, now, rooms, returned, gameState, lastTimestamp,
                clientVars>>

\* socket.on('disconnect')
OnDisconnect(s) ==
    /\ s \in connected
    /\ connected' = connected \ {s}
    /\ closed' = closed \cup {s}
    /\ LET i == findRoomBySocketId(rooms, s)
       IN IF i = 0
          THEN /\ emits' = <<>>
               /\ UNCHANGED rooms
          ELSE IF rooms[i].hostSocketId = s
          THEN /\ emits' = <<Emit("roomClosed", rooms[i].roomCode,
                                  [reason |-> "Host disconnected"])>>
               /\ rooms' = deleteRoom(rooms, rooms[i].roomCode)
          ELSE LET r == removePlayer(rooms[i].players, s)
               IN /\ rooms' = [rooms EXCEPT ![i].players = r.players]
                  /\ emits' =
                       IF r.found
                       THEN <<Emit("playerLeft", rooms[i].roomCode,
                                   [playerNumber |-> r.player.playerNumber,
                                    totalPlayers |-> Len(r.players),
                                    players |-> r.players])>>
                       ELSE <<>>
    /\ ack' = NoAck
    /\ UNCHANGED <<now, returned, gameState, lastTimestamp,
                clientVars>>

\* the setInterval callback: roomManager.cleanupInactiveRooms(60)
Cleanup ==
    /\ rooms' = cleanupInactiveRooms(rooms, now).rooms
    /\ ack' = NoAck
    /\ emits' = <<>>
    /\ UNCHANGED <<connected, closed, now, returned, gameState, lastTimestamp,
                clientVars>>

\* a call of roomManager.cleanupInactiveRooms(60) whose result is looked at
CleanupInactiveRooms ==
    /\ rooms' = cleanupInactiveRooms(rooms, now).rooms
    /\ returned' = [op |-> "cleanupInactiveRooms",
                    cleanedCount |->
                        cleanupInactiveRooms(rooms, now).cleanedCount]
    /\ UNCHANGED <<connected, closed, now, ack, emits, gameState,
                   lastTimestamp, clientVars>>

----------------------------------------------------------------------------
(* InputValidator (src/unnamed/part_000) *)

\* InputValidator.clamp
clamp(value, min, max) == MathMin(MathMax(value, min), max)

\* InputValidator.sanitize, called at time t
sanitize(input, t) ==
    Input(clamp(OrElse(input.steering, Num(0, 1)),
                Num(steeringMin, 1), Num(steeringMax, 1)),
          Bool(Truthy(input.brake)),
          OrElse(input.timestamp, Num(t, 1)))

\* InputValidator.validate at time t, lastTimestamp being last: the result
\* and the lastTimestamp afterwards
\* validate, had it stored every well-timed timestamp, valid sample or not
validate_Always(input, last, t) ==
    LET steering ==
            IF typeof(input.steering) # "number"
            THEN <<"Steering must be a number">>
            ELSE IF Lt(input.steering, Num(steeringMin, 1))
                    \/ Lt(Num(steeringMax, 1), input.steering)
            THEN <<"Steering must be between -1 and 1">>
            ELSE <<>>
        brake ==
            IF typeof(input.brake) # "boolean"
            THEN <<"Brake must be a boolean">>
            ELSE <<>>
        delta == Minus(input.timestamp, last)
        timestamp ==
            IF typeof(input.timestamp) # "number"
            THEN <<"Timestamp must be a number">>
            ELSE (IF Lt(delta, Num(timestampDeltaMin, 1))
                  THEN <<"Timestamp cannot be in the past">> ELSE <<>>)
                 \o (IF Lt(Num(timestampDeltaMax, 1), delta)
                     THEN <<"Timestamp delta too large (possible timeout)">>
                     ELSE <<>>)
        errors == steering \o brake \o timestamp
    IN [valid |-> Len(errors) = 0,
        errors |-> errors,
        sanitized |-> sanitize(input, t),
        lastTimestamp |-> IF Len(timestamp) = 0 THEN input.timestamp ELSE last]

validate(input, last, t) ==
    LET steering ==
            IF typeof(input.steering) # "number"
            THEN <<"Steering must be a number">>
            ELSE IF Lt(input.steering, Num(steeringMin, 1))
                    \/ Lt(Num(steeringMax, 1), input.steering)
            THEN <<"Steering must be between -1 and 1">>
            ELSE <<>>
        brake ==
            IF typeof(input.brake) # "boolean"
            THEN <<"Brake must be a boolean">>
            ELSE <<>>
        delta == Minus(input.timestamp, last)
        timestamp ==
            IF typeof(input.timestamp) # "number"
            THEN <<"Timestamp must be a number">>
            ELSE (IF Lt(delta, Num(timestampDeltaMin, 1))
                  THEN <<"Timestamp cannot be in the past">> ELSE <<>>)
                 \o (IF Lt(Num(timestampDeltaMax, 1), delta)
                     THEN <<"Timestamp delta too large (possible timeout)">>
                     ELSE <<>>)
        errors == steering \o brake \o timestamp
    IN [valid |-> Len(errors) = 0,
        errors |-> errors,
        sanitized |-> sanitize(input, t),
        lastTimestamp |-> IF Len(errors) = 0 THEN input.timestamp ELSE last]

\* a call of validate on the validator of one sender, while the timestamps
\* it has accepted are below the bound
Validate(input) ==
    /\ lastTimestamp.nan \/ lastTimestamp.n < MaxAccepted * timestampDeltaMax
    /\ LET v == validate(input, lastTimestamp, now)
       IN /\ lastTimestamp' = v.lastTimestamp
          /\ returned' = [op |-> "validate", input |-> input,
                          valid |-> v.valid, errors |-> v.errors,
                          sanitized |-> v.sanitized]
    /\ UNCHANGED <<connected, closed, now, rooms, ack, emits, gameState,
                clientVars>>

----------------------------------------------------------------------------
(* GameState (gameState.js).  powerUps, checkpoints and the currentLap of  *)
(* the GameState itself are never written after construction and are left *)
(* out.                                                                    *)

Origin == [x |-> 0, y |-> 0, z |-> 0]

\* GameState constructor
GameState(t) ==
    [players |-> <<>>, raceStartTime |-> JsNull, raceEndTime |-> JsNull,
     maxLaps |-> maxLaps, tick |-> 0, lastUpdateTime |-> t]

\* the object initialize pushes for the player at index i
RacePlayer(i) ==
    [playerNumber |-> i + 1, position |-> Origin, rotation |-> Origin,
     velocity |-> Origin, currentLap |-> 1, checkpointsPassed |-> <<>>,
     racePosition |-> i + 1, finished |-> FALSE, finishTime |-> JsNull]

\* GameState.initialize
initialize(gs, playerCount, t) ==
    [gs EXCEPT !.players = [k \in 1..playerCount |-> RacePlayer(k - 1)],
               !.raceStartTime = Num(t, 1),
               !.tick = 0]

\* the comparator of updateRacePositions
CompareProgress(a, b) ==
    IF a.currentLap # b.currentLap
    THEN b.currentLap - a.currentLap
    ELSE Len(b.checkpointsPassed) - Len(a.checkpointsPassed)

\* index of players[i] in [...players].sort(CompareProgress): the sort is
\* stable, so players[j] comes first when it compares lower, or compares
\* equal and stands earlier
SortedIndex(players, i) ==
    Cardinality({j \in 1..Len(players) :
        \/ CompareProgress(players[j], players[i]) < 0
        \/ CompareProgress(players[j], players[i]) = 0 /\ j < i})

\* updateRacePositions that gives players of equal progress the same position
updateRacePositions_Ties(players) ==
    [i \in 1..Len(players) |->
        [players[i] EXCEPT !.racePosition =
            1 + Cardinality({j \in 1..Len(players) :
                    CompareProgress(players[j], players[i]) < 0})]]

\* GameState.updateRacePositions
updateRacePositions(players) ==
    [i \in 1..Len(players) |->
        [players[i] EXCEPT !.racePosition = SortedIndex(players, i) + 1]]

\* GameState.checkRaceCompletion
checkRaceCompletion(gs, t) ==
    IF (\A i \in 1..Len(gs.players) : gs.players[i].finished)
       /\ ~Truthy(gs.raceEndTime)
    THEN [gs EXCEPT !.raceEndTime = Num(t, 1)]
    ELSE gs

\* GameState.update
update(gs, t) ==
    checkRaceCompletion(
        [gs EXCEPT !.tick = gs.tick + 1,
                   !.lastUpdateTime = t,
                   !.players = updateRacePositions(gs.players)], t)

\* players.find(p => p.playerNumber === playerNumber): its index, 0 if none
FindPlayer(players, playerNumber) ==
    IF \E i \in 1..Len(players) : players[i].playerNumber = playerNumber
    THEN CHOOSE i \in 1..Len(players) :
            /\ players[i].playerNumber = playerNumber
            /\ \A j \in 1..(i - 1) : players[j].playerNumber # playerNumber
    ELSE 0

\* GameState.updatePlayerPosition
updatePlayerPosition(gs, playerNumber, position, rotation, velocity) ==
    LET i == FindPlayer(gs.players, playerNumber)
    IN IF i # 0
       THEN [gs EXCEPT !.players[i].position = position,
                       !.players[i].rotation = rotation,
                       !.players[i].velocity = velocity]
       ELSE gs

\* checkpointsPassed.includes(checkpointId)
includes(checkpointsPassed, checkpointId) ==
    \E k \in 1..Len(checkpointsPassed) : checkpointsPassed[k] = checkpointId

\* isLapComplete that is satisfied one checkpoint early
isLapComplete_Early(player) ==
    Len(player.checkpointsPassed) >= checkpointsPerLap - 1

\* GameState.isLapComplete
isLapComplete(player) == Len(player.checkpointsPassed) >= checkpointsPerLap

\* the player after passCheckpoint has pushed checkpointId
AfterPush(gs, player, checkpointId, t) ==
    LET pushed == [player EXCEPT
                     !.checkpointsPassed = Append(@, checkpointId)]
        lapped == [pushed EXCEPT !.currentLap = @ + 1,
                                 !.checkpointsPassed = <<>>]
    IN IF ~isLapComplete(pushed) THEN pushed
       ELSE IF lapped.currentLap > gs.maxLaps
       THEN [lapped EXCEPT
               !.finished = TRUE,
               !.finishTime = Minus(Num(t, 1), ToNumber(gs.raceStartTime))]
       ELSE lapped

\* passCheckpoint that records a checkpoint whether or not it is recorded
passCheckpoint_NoSet(gs, playerNumber, checkpointId, t) ==
    LET i == FindPlayer(gs.players, playerNumber)
    IN IF i # 0
       THEN [gs EXCEPT !.players[i] = AfterPush(gs, @, checkpointId, t)]
       ELSE gs

\* GameState.passCheckpoint
passCheckpoint(gs, playerNumber, checkpointId, t) ==
    LET i == FindPlayer(gs.players, playerNumber)
    IN IF i # 0 /\ ~includes(gs.players[i].checkpointsPassed, checkpointId)
       THEN [gs EXCEPT !.players[i] = AfterPush(gs, @, checkpointId, t)]
       ELSE gs

\* the calls of the GameState methods
Initialize(playerCount) ==
    /\ gameState' = initialize(gameState, playerCount, now)
    /\ returned' = [op |-> "initialize"]
    /\ UNCHANGED <<connected, closed, now, rooms, ack, emits, lastTimestamp,
                clientVars>>

Update ==
    /\ gameState.tick < MaxUpdates
    /\ gameState' = update(gameState, now)
    /\ returned' = [op |-> "update"]
    /\ UNCHANGED <<connected, closed, now, rooms, ack, emits, lastTimestamp,
                clientVars>>

UpdatePlayerPosition(playerNumber, position) ==
    /\ gameState' = updatePlayerPosition(gameState, playerNumber,
                                         position, Origin, position)
    /\ returned' = [op |-> "updatePlayerPosition"]
    /\ UNCHANGED <<connected, closed, now, rooms, ack, emits, lastTimestamp,
                clientVars>>

\* reported while the player is on a lap up to lapCap
PassCheckpoint(playerNumber, checkpointId, lapCap) ==
    /\ \A i \in 1..Len(gameState.players) :
            gameState.players[i].playerNumber = playerNumber =>
                gameState.players[i].currentLap <= lapCap
    /\ gameState' = passCheckpoint(gameState, playerNumber, checkpointId, now)
    /\ returned' = [op |-> "passCheckpoint"]
    /\ UNCHANGED <<connected, closed, now, rooms, ack, emits, lastTimestamp,
                clientVars>>

----------------------------------------------------------------------------
(* InputBuffer (src/unnamed/part_000).  The sequence of an entry is always *)
(* a number and is an integer here; the argument of acknowledge and of     *)
(* getInputsSince is a JavaScript value.                                   *)

\* x > y
Gt(x, y) == Lt(ToNumber(y), ToNumber(x))

\* InputBuffer constructor
InputBuffer(bufferSize) ==
    [inputs |-> <<>>, bufferSize |-> bufferSize, sequenceNumber |-> 0,
     lastAcknowledgedSequence |-> Num(0, 1)]

\* addInput that never evicts
addInput_NoEvict(buf, input, t) ==
    LET bufferedInput == [sequence |-> buf.sequenceNumber + 1,
                          input |-> input, timestamp |-> t]
    IN [buffer |-> [buf EXCEPT !.sequenceNumber = @ + 1,
                               !.inputs = Append(@, bufferedInput)],
        bufferedInput |-> bufferedInput]

\* addInput that numbers the entry by its place in the buffer
addInput_Reuse(buf, input, t) ==
    LET bufferedInput == [sequence |-> Len(buf.inputs) + 1,
                          input |-> input, timestamp |-> t]
        pushed == Append(buf.inputs, bufferedInput)
    IN [buffer |-> [buf EXCEPT !.sequenceNumber = Len(buf.inputs) + 1,
                               !.inputs = IF Len(pushed) > buf.bufferSize
                                          THEN Tail(pushed) ELSE pushed],
        bufferedInput |-> bufferedInput]

\* InputBuffer.addInput at time t: the buffer afterwards and what it returns
addInput(buf, input, t) ==
    LET bufferedInput == [sequence |-> buf.sequenceNumber + 1,
                          input |-> input, timestamp |-> t]
        pushed == Append(buf.inputs, bufferedInput)
    IN [buffer |-> [buf EXCEPT !.sequenceNumber = @ + 1,
                               !.inputs = IF Len(pushed) > buf.bufferSize
                                          THEN Tail(pushed) ELSE pushed],
        bufferedInput |-> bufferedInput]

\* InputBuffer.getInputsSince
getInputsSince(buf, sequence) ==
    SelectSeq(buf.inputs, LAMBDA e : Gt(Num(e.sequence, 1), sequence))

\* acknowledge that keeps the entry with the acknowledged sequence
acknowledge_Inclusive(buf, sequence) ==
    [buf EXCEPT !.lastAcknowledgedSequence = sequence,
                !.inputs = SelectSeq(@, LAMBDA e :
                                ~Lt(Num(e.sequence, 1), ToNumber(sequence)))]

\* InputBuffer.acknowledge
acknowledge(buf, sequence) ==
    [buf EXCEPT !.lastAcknowledgedSequence = sequence,
                !.inputs = SelectSeq(@, LAMBDA e :
                                Gt(Num(e.sequence, 1), sequence))]

\* InputBuffer.getUnacknowledgedInputs
getUnacknowledgedInputs(buf) ==
    SelectSeq(buf.inputs, LAMBDA e :
        Gt(Num(e.sequence, 1), buf.lastAcknowledgedSequence))

\* InputBuffer.clear
clear(buf) ==
    [buf EXCEPT !.inputs = <<>>, !.sequenceNumber = 0,
                !.lastAcknowledgedSequence = Num(0, 1)]

\* the calls of the InputBuffer methods
NewInputBuffer(bufferSize) ==
    /\ inputBuffer' = InputBuffer(bufferSize)
    /\ returned' = [op |-> "new InputBuffer"]
    /\ UNCHANGED <<serverVars, latencyMonitor, timers, probes, calls>>

AddInput(input) ==
    /\ inputBuffer.sequenceNumber < MaxAdds
    /\ inputBuffer' = addInput(inputBuffer, input, now).buffer
    /\ returned' = [op |-> "addInput",
                    bufferedInput |->
                        addInput(inputBuffer, input, now).bufferedInput]
    /\ UNCHANGED <<serverVars, latencyMonitor, timers, probes, calls>>

GetInputsSince(sequence) ==
    /\ returned' = [op |-> "getInputsSince", sequence |-> sequence,
                    inputs |-> getInputsSince(inputBuffer, sequence)]
    /\ UNCHANGED <<serverVars, clientVars>>

Acknowledge(sequence) ==
    /\ inputBuffer' = acknowledge(inputBuffer, sequence)
    /\ returned' = [op |-> "acknowledge", sequence |-> sequence]
    /\ UNCHANGED <<serverVars, latencyMonitor, timers, probes, calls>>

Clear ==
    /\ inputBuffer' = clear(inputBuffer)
    /\ returned' = [op |-> "clear"]
    /\ UNCHANGED <<serverVars, latencyMonitor, timers, probes, calls>>

----------------------------------------------------------------------------
(* LatencyMonitor (src/unnamed/part_001).  Latencies are differences of    *)
(* Date.now() values, integers.  The period of a timer is left out: when a *)
(* timer fires is not determined in the model.                             *)

\* LatencyMonitor constructor
LatencyMonitor ==
    [pings |-> <<>>, maxSamples |-> maxSamples, currentLatency |-> 0,
     averageLatency |-> 0, jitter |-> 0, lastPingTime |-> 0,
     pingInterval |-> JsNull, updateCallbacks |-> <<>>]

\* array.reduce((a, b) => a + b, 0)
RECURSIVE Sum(_)
Sum(seq) == IF seq = <<>> THEN 0 ELSE seq[1] + Sum(Tail(seq))

\* Math.round(n / d) for d > 0: the nearest integer, a half rounding up
Round(n, d) == (2 * n + d) \div (2 * d)

\* Math.round(Math.sqrt(n / d)) for n >= 0 and d > 0: the least k with
\* n / d < (k + 1/2)^2
RECURSIVE RoundSqrtFrom(_, _, _)
RoundSqrtFrom(n, d, k) ==
    IF 4 * n < (2 * k + 1) * (2 * k + 1) * d THEN k
    ELSE RoundSqrtFrom(n, d, k + 1)
RoundSqrt(n, d) == RoundSqrtFrom(n, d, 0)

\* LatencyMonitor.calculateStats
calculateStats(m) ==
    IF Len(m.pings) = 0 THEN m
    ELSE LET averageLatency == Round(Sum(m.pings), Len(m.pings))
             squares == [i \in 1..Len(m.pings) |->
                            (m.pings[i] - averageLatency)
                                * (m.pings[i] - averageLatency)]
         IN [m EXCEPT !.averageLatency = averageLatency,
                      !.jitter = RoundSqrt(Sum(squares), Len(m.pings))]

\* getQuality whose bands are closed above
getQuality_Closed(m) ==
    IF m.averageLatency <= 50
    THEN [rating |-> "excellent", color |-> "#4caf50", label |-> "Excellent"]
    ELSE IF m.averageLatency <= 100
    THEN [rating |-> "good", color |-> "#8bc34a", label |-> "Good"]
    ELSE IF m.averageLatency <= 150
    THEN [rating |-> "fair", color |-> "#ff9800", label |-> "Fair"]
    ELSE IF m.averageLatency <= 250
    THEN [rating |-> "poor", color |-> "#ff5722", label |-> "Poor"]
    ELSE [rating |-> "bad", color |-> "#f44336", label |-> "Bad"]

\* LatencyMonitor.getQuality
getQuality(m) ==
    IF m.averageLatency < 50
    THEN [rating |-> "excellent", color |-> "#4caf50", label |-> "Excellent"]
    ELSE IF m.averageLatency < 100
    THEN [rating |-> "good", color |-> "#8bc34a", label |-> "Good"]
    ELSE IF m.averageLatency < 150
    THEN [rating |-> "fair", color |-> "#ff9800", label |-> "Fair"]
    ELSE IF m.averageLatency < 250
    THEN [rating |-> "poor", color |-> "#ff5722", label |-> "Poor"]
    ELSE [rating |-> "bad", color |-> "#f44336", label |-> "Bad"]

\* LatencyMonitor.getStats
getStats(m) ==
    [current |-> m.currentLatency, average |-> m.averageLatency,
     jitter |-> m.jitter, samples |-> Len(m.pings), quality |-> getQuality(m)]

\* LatencyMonitor.onUpdate
onUpdate(m, callback) ==
    IF typeof(callback) = "function"
    THEN [m EXCEPT !.updateCallbacks = Append(@, callback)]
    ELSE m

\* notifyUpdate that lets what a callback throws end the loop
notifyUpdate_NoCatch(m) ==
    LET throwers == {i \in 1..Len(m.updateCallbacks) :
                        m.updateCallbacks[i].b}
        last == IF throwers = {} THEN Len(m.updateCallbacks)
                ELSE CHOOSE i \in throwers : \A j \in throwers : i <= j
    IN [i \in 1..last |->
            [callback |-> m.updateCallbacks[i], stats |-> getStats(m)]]

\* LatencyMonitor.notifyUpdate: the calls it makes, in order; what a
\* callback throws is caught
notifyUpdate(m) ==
    [i \in 1..Len(m.updateCallbacks) |->
        [callback |-> m.updateCallbacks[i], stats |-> getStats(m)]]

\* recordPing, had it let the window grow
recordPing_NoShift(m, latency) ==
    LET recorded == calculateStats(
            [m EXCEPT !.currentLatency = latency,
                      !.pings = Append(m.pings, latency)])
    IN [monitor |-> recorded, calls |-> notifyUpdate(recorded)]

\* LatencyMonitor.recordPing: the monitor afterwards and the calls made
recordPing(m, latency) ==
    LET pushed == Append(m.pings, latency)
        recorded == calculateStats(
            [m EXCEPT !.currentLatency = latency,
                      !.pings = IF Len(pushed) > m.maxSamples
                                THEN Tail(pushed) ELSE pushed])
    IN [monitor |-> recorded, calls |-> notifyUpdate(recorded)]

\* LatencyMonitor.reset
reset(m) ==
    [m EXCEPT !.pings = <<>>, !.currentLatency = 0, !.averageLatency = 0,
              !.jitter = 0]

\* LatencyMonitor.stop: the monitor and the timers afterwards
stop(m, ts) ==
    IF Truthy(m.pingInterval)
    THEN [monitor |-> [m EXCEPT !.pingInterval = JsNull],
          timers |-> [ts EXCEPT ![m.pingInterval.n] = FALSE]]
    ELSE [monitor |-> m, timers |-> ts]

\* LatencyMonitor.ping at time t: the monitor and the pings in flight
ping(m, ps, t) ==
    [monitor |-> [m EXCEPT !.lastPingTime = t], probes |-> Append(ps, t)]

\* start that leaves a running timer running
start_NoStop(m, ts, ps, socket, t) ==
    IF ~Truthy(socket)
    THEN [monitor |-> m, timers |-> ts, probes |-> ps]
    ELSE LET set == [m EXCEPT !.pingInterval = Num(Len(ts) + 1, 1)]
             pinged == ping(set, ps, t)
         IN [monitor |-> pinged.monitor,
             timers |-> Append(ts, TRUE),
             probes |-> pinged.probes]

\* LatencyMonitor.start at time t: the monitor, the timers and the pings in
\* flight afterwards; setInterval gives the new timer the next id
start(m, ts, ps, socket, t) ==
    IF ~Truthy(socket)
    THEN [monitor |-> m, timers |-> ts, probes |-> ps]
    ELSE LET stopped == stop(m, ts)
             set == [stopped.monitor EXCEPT
                        !.pingInterval = Num(Len(ts) + 1, 1)]
             pinged == ping(set, ps, t)
         IN [monitor |-> pinged.monitor,
             timers |-> Append(stopped.timers, TRUE),
             probes |-> pinged.probes]

\* the calls of the LatencyMonitor methods
Start(socket) ==
    /\ Len(timers) < MaxTimers
    /\ Len(probes) < MaxProbes
    /\ LET st == start(latencyMonitor, timers, probes, socket, now)
       IN /\ latencyMonitor' = st.monitor
          /\ timers' = st.timers
          /\ probes' = st.probes
    /\ returned' = [op |-> "start"]
    /\ UNCHANGED <<serverVars, inputBuffer, calls>>

Stop ==
    /\ latencyMonitor' = stop(latencyMonitor, timers).monitor
    /\ timers' = stop(latencyMonitor, timers).timers
    /\ returned' = [op |-> "stop"]
    /\ UNCHANGED <<serverVars, inputBuffer, probes, calls>>

\* the callback of setInterval: the timer with that id fires
TimerFires(id) ==
    /\ id \in 1..Len(timers)
    /\ timers[id]
    /\ Len(probes) < MaxProbes
    /\ latencyMonitor' = ping(latencyMonitor, probes, now).monitor
    /\ probes' = ping(latencyMonitor, probes, now).probes
    /\ UNCHANGED <<serverVars, returned, inputBuffer, timers, calls>>

\* the callback of socket.emit('ping', ...): the server, whose handler
\* echoes at once and keeps nothing, has answered the k-th ping in flight
PingReply(k) ==
    /\ k \in 1..Len(probes)
    /\ LET r == recordPing(latencyMonitor, now - probes[k])
       IN /\ latencyMonitor' = r.monitor
          /\ calls' = r.calls
    /\ probes' = [i \in 1..(Len(probes) - 1) |->
                    IF i < k THEN probes[i] ELSE probes[i + 1]]
    /\ UNCHANGED <<serverVars, returned, inputBuffer, timers>>

RecordPing(latency) ==
    /\ Len(latencyMonitor.pings) < MaxSamples
    /\ latencyMonitor' = recordPing(latencyMonitor, latency).monitor
    /\ calls' = recordPing(latencyMonitor, latency).calls
    /\ returned' = [op |-> "recordPing"]
    /\ UNCHANGED <<serverVars, inputBuffer, timers, probes>>

\* a call of recordPing, however many samples the window holds
RecordRoundTrip(latency) ==
    /\ latencyMonitor' = recordPing(latencyMonitor, latency).monitor
    /\ calls' = recordPing(latencyMonitor, latency).calls
    /\ returned' = [op |-> "recordPing"]
    /\ UNCHANGED <<serverVars, inputBuffer, timers, probes>>

OnUpdate(callback) ==
    /\ Len(latencyMonitor.updateCallbacks) < MaxCallbacks
    /\ latencyMonitor' = onUpdate(latencyMonitor, callback)
    /\ returned' = [op |-> "onUpdate"]
    /\ UNCHANGED <<serverVars, inputBuffer, timers, probes, calls>>

GetQuality ==
    /\ returned' = [op |-> "getQuality",
                    quality |-> getQuality(latencyMonitor)]
    /\ UNCHANGED <<serverVars, clientVars>>

Reset ==
    /\ latencyMonitor' = reset(latencyMonitor)
    /\ returned' = [op |-> "reset"]
    /\ UNCHANGED <<serverVars, inputBuffer, timers, probes, calls>>

----------------------------------------------------------------------------
\* the page of a client after its scripts have run
InitClient ==
    /\ inputBuffer = InputBuffer(bufferSizeDefault)
    /\ latencyMonitor = LatencyMonitor
    /\ timers = <<>>
    /\ probes = <<>>
    /\ calls = <<>>

Init ==
    /\ connected = {}
    /\ closed = {}
    /\ now = 0
    /\ rooms = <<>>
    /\ ack = NoAck
    /\ emits = <<>>
    /\ returned = NoReturn
    /\ gameState = GameState(0)
    /\ lastTimestamp = Num(0, 1)
    /\ InitClient

(* Spec: every handler, on one room code *)
Sockets == 1..NumSockets
CodeInputs == {OneCode, NoCode, Empty}
\* what a host sends as the state of a gameStateUpdate
States == {"snapshot"}

Next ==
    \/ Connect(NumSockets)
    \/ \E s \in Sockets : OnCreateRoom(s, LobbyDraws)
    \/ \E s \in Sockets, code \in CodeInputs : OnGetRoomState(s, code)
    \/ \E s \in Sockets, code \in CodeInputs : OnStartGame(s, code)
    \/ \E s \in Sockets, code \in CodeInputs : OnJoinRoom(s, code)
    \/ \E s \in Sockets, code \in CodeInputs, m \in Maps :
            OnSelectMap(s, code, m)
    \/ \E s \in Sockets, code \in CodeInputs, g \in GameModes :
            OnSelectGameMode(s, code, g)
    \/ \E s \in Sockets, code \in CodeInputs, st \in States :
            OnGameStateUpdate(s, code, st)
    \/ \E s \in Sockets : OnDisconnect(s)

Spec == Init /\ [][Next]_vars

(* SpecRegistry: the registry over several room codes and the clock *)
NextRegistry ==
    \/ Connect(RegSockets)
    \/ Tick
    \/ \E s \in 1..RegSockets, in \in DrawInputs : OnCreateRoom(s, in)
    \/ \E s \in 1..RegSockets : OnDisconnect(s)
    \/ Cleanup

SpecRegistry == Init /\ [][NextRegistry]_vars

(* SpecMulti: joining and leaving several rooms *)
NextMulti ==
    \/ Connect(MultiSockets)
    \/ \E s \in 1..MultiSockets, in \in DirectDraws : OnCreateRoom(s, in)
    \/ \E s \in 1..MultiSockets, code \in AllCodes : OnJoinRoom(s, code)
    \/ \E s \in 1..MultiSockets : OnDisconnect(s)

SpecMulti == Init /\ [][NextMulti]_vars

(* SpecLobby: joining and leaving the one room that the first connection, *)
(* the desktop, creates                                                   *)
NextLobby ==
    \/ Connect(LobbySockets)
    \/ OnCreateRoom(1, LobbyDraws)
    \/ \E s \in 1..LobbySockets, code \in {OneCode, NoCode} :
            OnJoinRoom(s, code)
    \/ \E s \in 1..LobbySockets : OnDisconnect(s)

SpecLobby == Init /\ [][NextLobby]_vars

(* SpecRoom: the methods of one Room, called directly *)
RoomAddPlayer(s) ==
    /\ rooms' = [rooms EXCEPT ![1].players = addPlayer(rooms[1].players, s, now).players]
    /\ returned' = [op |-> "addPlayer",
                    player |-> addPlayer(rooms[1].players, s, now).player]
    /\ UNCHANGED <<connected, closed, now, ack, emits, gameState, lastTimestamp,
                clientVars>>

RoomRemovePlayer(s) ==
    /\ rooms' = [rooms EXCEPT
                     ![1].players = removePlayer(rooms[1].players, s).players]
    /\ returned' = IF removePlayer(rooms[1].players, s).found
                   THEN [op |-> "removePlayer",
                         player |-> removePlayer(rooms[1].players, s).player]
                   ELSE [op |-> "removePlayer", null |-> TRUE]
    /\ UNCHANGED <<connected, closed, now, ack, emits, gameState, lastTimestamp,
                clientVars>>

InitRoom ==
    /\ connected = {}
    /\ closed = {}
    /\ now = 0
    /\ rooms = <<Room(OneCode, 1, 0)>>
    /\ ack = NoAck
    /\ emits = <<>>
    /\ returned = NoReturn
    /\ gameState = GameState(0)
    /\ lastTimestamp = Num(0, 1)
    /\ InitClient

NextRoom ==
    \/ \E s \in 1..RoomSockets : RoomAddPlayer(s)
    \/ \E s \in 1..RoomSockets : RoomRemovePlayer(s)

SpecRoom == InitRoom /\ [][NextRoom]_vars

(* SpecInput: controllers streaming input to one room *)
ServerInputs ==
    {Input(st, br, Num(5, 1)) :
        st \in {Num(1, 2), Num(5, 2), Str("yes")},
        br \in {Bool(TRUE), Str("yes")}}
Sequences == {Undefined, Num(1, 1)}

NextInput ==
    \/ Connect(InputSockets)
    \/ OnCreateRoom(1, LobbyDraws)
    \/ \E s \in 1..InputSockets : OnJoinRoom(s, OneCode)
    \/ \E s \in 1..InputSockets, code \in {OneCode, NoCode} :
            \E in \in ServerInputs : OnControllerInput(s, code, in)
    \/ \E s \in 1..InputSockets, code \in {OneCode, NoCode} :
            \E in \in ServerInputs, sequence \in Sequences :
                OnControllerInputSequenced(s, code, in, sequence)

SpecInput == Init /\ [][NextInput]_vars

(* SpecValidator: the InputValidator of one sender *)
Steerings ==
    {Num(1, 2), Num(1, 1), Num(-1, 1), Num(5, 2), Num(-3, 1),
     NaN, Str("yes"), Str("2"), Undefined}
Brakes == {Bool(TRUE), Bool(FALSE), Str("yes"), Undefined}
\* timestamps around the last one accepted, and others
Timestamps(last) ==
    {Num(-1, 1), NaN, Str("yes"), Undefined}
    \cup (IF last.nan THEN {Num(0, 1)}
          ELSE {Num(last.n + k, 1) :
                  k \in {-1, 0, timestampDeltaMax, timestampDeltaMax + 1}})
ValidatorInputs(last) ==
    {Input(st, br, ts) :
        st \in Steerings, br \in Brakes, ts \in Timestamps(last)}

NextValidator ==
    \E in \in ValidatorInputs(lastTimestamp) : Validate(in)

SpecValidator == Init /\ [][NextValidator]_vars

(* SpecSender: one sender and its InputValidator.  After a sample that was *)
(* rejected the sender goes on with well-formed samples, each stamped 0 to *)
(* 1000 ms after the sample it sent before, and it never stops sending.    *)
\* samples with a numeric timestamp, around the last one accepted
SenderInputs(last) ==
    {in \in ValidatorInputs(last) :
        typeof(in.timestamp) = "number" /\ ~in.timestamp.nan}

\* steerings in range, and the milliseconds between two samples
WellFormedSteerings == {Num(1, 2), Num(-1, 1)}
Advances == {timestampDeltaMin, 500, timestampDeltaMax}

\* whether the validate call before this one rejected its sample
Rejected == returned.op = "validate" /\ ~returned.valid

\* any sample, while none has been rejected
SendSample(input) ==
    /\ ~Rejected
    /\ Validate(input)

\* a well-formed sample stamped d ms after the one sent before
SendWellFormed(st, d) ==
    /\ Rejected
    /\ returned.input.timestamp.n + d <= (MaxAccepted + 1) * timestampDeltaMax
    /\ Validate(Input(st, Bool(TRUE),
                      Num(returned.input.timestamp.n + d, 1)))

KeepsSending ==
    \E st \in WellFormedSteerings, d \in Advances : SendWellFormed(st, d)

NextSender ==
    \/ \E in \in SenderInputs(lastTimestamp) : SendSample(in)
    \/ KeepsSending

SpecSender == Init /\ [][NextSender]_vars /\ WF_vars(KeepsSending)

(* The checkpoint ids the host reports for a player: the next one of the  *)
(* track or, retransmitted, any one already recorded for the lap ...      *)
InOrder(playerNumber) ==
    LET i == FindPlayer(gameState.players, playerNumber)
        passed == IF i = 0 THEN 0
                  ELSE Len(gameState.players[i].checkpointsPassed)
    IN 1..(passed + 1)

(* ... or the last one of the track, again *)
Reported(playerNumber) == InOrder(playerNumber) \cup {checkpointsPerLap}

\* the position a client reports
Moved == [x |-> 1, y |-> 0, z |-> 1]

(* SpecRace: the race of several players, without the clock *)
NextRace ==
    \/ \E n \in 1..RacePlayers : Initialize(n)
    \/ Update
    \/ \E p \in 1..RacePlayers : UpdatePlayerPosition(p, Moved)
    \/ \E p \in 1..RacePlayers :
            \E c \in InOrder(p) : PassCheckpoint(p, c, RaceLap)

SpecRace == Init /\ [][NextRace]_vars

(* SpecLap: checkpoints reported with retransmissions, and the clock *)
NextLap ==
    \/ \E n \in 1..LapPlayers : Initialize(n)
    \/ Tick
    \/ \E p \in 1..LapPlayers :
            \E c \in InOrder(p) : PassCheckpoint(p, c, RaceLap)

SpecLap == Init /\ [][NextLap]_vars

(* SpecFinish: a race to the finish and beyond, with the clock *)
NextFinish ==
    \/ \E n \in 1..FinishPlayers : Initialize(n)
    \/ Tick
    \/ \E p \in 1..FinishPlayers :
            \E c \in Reported(p) : PassCheckpoint(p, c, MaxLap)

SpecFinish == Init /\ [][NextFinish]_vars

(* SpecLaps: checkpoints reported in track order, with retransmissions, up *)
(* to the finish and one lap beyond                                        *)
NextLaps ==
    \/ \E n \in 1..LapsPlayers : Initialize(n)
    \/ \E p \in 1..LapsPlayers :
            \E c \in InOrder(p) : PassCheckpoint(p, c, MaxLap)

SpecLaps == Init /\ [][NextLaps]_vars

(* SpecEnd: races run to their end on one GameState, with the clock, which *)
(* has been running for a while when the GameState is constructed          *)
InitEnd ==
    /\ connected = {}
    /\ closed = {}
    /\ now = TickMs
    /\ rooms = <<>>
    /\ ack = NoAck
    /\ emits = <<>>
    /\ returned = NoReturn
    /\ gameState = GameState(TickMs)
    /\ lastTimestamp = Num(0, 1)
    /\ InitClient

NextEnd ==
    \/ \E n \in 1..EndPlayers : Initialize(n)
    \/ Tick
    \/ Update
    \/ \E p \in 1..EndPlayers :
            \E c \in InOrder(p) : PassCheckpoint(p, c, maxLaps)

SpecEnd == InitEnd /\ [][NextEnd]_vars

(* SpecBuffer: the methods of one InputBuffer, called directly *)
BufferSizes == {SmallBuffer, bufferSizeDefault}
\* the sample a controller buffers
Sample == Input(Num(1, 2), Bool(TRUE), Num(0, 1))
\* the sequences acknowledged and asked for: the one before the current
\* one (below all in a new buffer), a fixed one, which is beyond the current
\* one at first, and one that is no integer
AckInputs(buf) ==
    {Num(buf.sequenceNumber - 1, 1), Num(50, 1), Num(3, 2)}

NextBuffer ==
    \/ \E bufferSize \in BufferSizes : NewInputBuffer(bufferSize)
    \/ AddInput(Sample)
    \/ \E sequence \in AckInputs(inputBuffer) : GetInputsSince(sequence)
    \/ \E sequence \in AckInputs(inputBuffer) : Acknowledge(sequence)
    \/ Clear

SpecBuffer == Init /\ [][NextBuffer]_vars

(* SpecMonitor: a LatencyMonitor started and stopped on the socket of the *)
(* page, its timer firing and its pings being answered, within one         *)
(* millisecond                                                             *)
ClientSocket == Obj("socket")
MonitorSockets == {ClientSocket, Undefined}

NextMonitor ==
    \/ \E socket \in MonitorSockets : Start(socket)
    \/ Stop
    \/ \E id \in 1..MaxTimers : TimerFires(id)
    \/ \E k \in 1..MaxProbes : PingReply(k)

SpecMonitor == Init /\ [][NextMonitor]_vars

(* SpecObservers: observers registered on a LatencyMonitor that records *)
(* samples                                                                *)
Callbacks == {Fn("shows", FALSE), Fn("throws", TRUE), Str("none")}
ObserverLatencies == {40, 60}

NextObservers ==
    \/ \E callback \in Callbacks : OnUpdate(callback)
    \/ \E latency \in ObserverLatencies : RecordPing(latency)
    \/ Reset

SpecObservers == Init /\ [][NextObservers]_vars

(* SpecQuality: the quality of a LatencyMonitor that records samples *)
\* round trips within, at and next to the ends of the bands
QualityLatencies == {40, 49, 50, 99, 100, 120, 149, 150, 249, 250, 300}

NextQuality ==
    \/ \E latency \in QualityLatencies : RecordPing(latency)
    \/ Reset
    \/ GetQuality

SpecQuality == Init /\ [][NextQuality]_vars

(* SpecWindow: a LatencyMonitor that records more samples than it keeps *)
\* round trips that rise by a millisecond from one probe to the next, or
\* are the longest one
WindowLatencies(m) ==
    {latency \in {m.currentLatency + 1, MaxLatency} : latency <= MaxLatency}

NextWindow ==
    \/ \E latency \in WindowLatencies(latencyMonitor) :
          RecordRoundTrip(latency)
    \/ Reset

SpecWindow == Init /\ [][NextWindow]_vars

(* SpecSweep: rooms created by the first connection, joined, and swept as *)
(* time passes.  The draws are those that give a free code at once: the   *)
(* others are the matter of SpecRegistry.                                 *)
FreeDraws == {in \in DirectDraws : CodeOf(in[1]) \notin Keys(rooms)}

NextSweep ==
    \/ Connect(SweepSockets)
    \/ Tick
    \/ \E in \in FreeDraws : OnCreateRoom(1, in)
    \/ \E s \in 1..SweepSockets, code \in AllCodes : OnJoinRoom(s, code)
    \/ Cleanup
    \/ CleanupInactiveRooms

SpecSweep == Init /\ [][NextSweep]_vars

----------------------------------------------------------------------------
(* Properties *)

Range(f) == {f[i] : i \in DOMAIN f}

\* the entry of the registry `rs` with that code (the code is a key of rs)
RoomOf(rs, code) == rs[IndexOf(rs, code)]

\* C1: a room never outlives its host: the hostSocketId of every room in the
\* registry is a connection that is live.
C1_RoomNeverOutlivesHost ==
    \A i \in 1..Len(rooms) : rooms[i].hostSocketId \in connected

\* C2: when the connection that disconnects is the host of a room, roomClosed
\* with reason "Host disconnected" is emitted to that room and the room is
\* deleted, so that its code is no longer a key of the registry.
C2_HostDisconnectClosesRoom ==
    [][\A s \in connected :
         OnDisconnect(s) =>
            \A i \in 1..Len(rooms) :
                rooms[i].hostSocketId = s =>
                    /\ rooms[i].roomCode \notin Keys(rooms')
                    /\ Emit("roomClosed", rooms[i].roomCode,
                            [reason |-> "Host disconnected"]) \in Range(emits')
      ]_vars

\* C3: the players of a room are numbered 1..N in list order, without gaps
\* or duplicates, and the player numbered 1, and no other, has isHost.
C3_DenseNumbers ==
    \A i \in 1..Len(rooms) :
        LET ps == rooms[i].players
        IN /\ \A k \in 1..Len(ps) :
                /\ ps[k].playerNumber = k
                /\ ps[k].isHost = (ps[k].playerNumber = 1)
           /\ {ps[k].playerNumber : k \in 1..Len(ps)} = 1..Len(ps)
           /\ Len(ps) > 0 =>
                Cardinality({k \in 1..Len(ps) : ps[k].isHost}) = 1

\* the player numbered 1 of three was removed and two players remain
C3_Witness ==
    /\ returned.op = "removePlayer"
    /\ "player" \in DOMAIN returned
    /\ returned.player.playerNumber = 1
    /\ Len(rooms[1].players) = 2

IsSixDigits(code) ==
    /\ Len(code) = 6
    /\ \A k \in 1..Len(code) : code[k] \in 0..9
    /\ code[1] # 0

\* the acknowledgement of a createRoom that succeeded
IsCreateAck(a) ==
    a.called /\ a.success /\ DOMAIN a = {"called", "success", "roomCode"}

GenerationError == Fail("Failed to generate unique room code")

\* C4: room codes are unique among live rooms and are 6-digit numeric
\* strings; a createRoom that succeeds returns a code that was not a key of
\* the registry and adds one room, leaving every other room as it was; and
\* the registry grows in no other way.
C4_UniqueCodes ==
    /\ [](/\ \A i, j \in 1..Len(rooms) :
                rooms[i].roomCode = rooms[j].roomCode => i = j
          /\ \A i \in 1..Len(rooms) : IsSixDigits(rooms[i].roomCode)
          /\ \A s \in connected, in \in DrawInputs :
                LET c == createRoom(rooms, s, in, now)
                IN ~c.threw =>
                     /\ c.roomCode \notin Keys(rooms)
                     /\ IsSixDigits(c.roomCode)
                     /\ c.rooms = Append(rooms, Room(c.roomCode, s, now)))
    /\ [][(IsCreateAck(ack') \/ Keys(rooms') \ Keys(rooms) # {}) =>
                /\ IsCreateAck(ack')
                /\ ack'.roomCode \notin Keys(rooms)
                /\ Len(rooms') = Len(rooms) + 1
                /\ SubSeq(rooms', 1, Len(rooms)) = rooms
                /\ rooms'[Len(rooms')].roomCode = ack'.roomCode
         ]_vars

\* both codes are live and the last createRoom succeeded after a delete
C4_Witness ==
    /\ Len(rooms) = 2
    /\ IsCreateAck(ack) /\ ack.roomCode = rooms[2].roomCode
    /\ closed # {}

\* C5: generateRoomCode makes at most maxAttempts + 1 draws; it throws
\* exactly when its first maxAttempts draws are all taken, and otherwise
\* returns a free code; a createRoom is acknowledged either with a new room
\* or with the error, and then the registry and the connections are as they
\* were.
C5_GenerationTerminates ==
    /\ [](\A in \in DrawInputs :
            LET g == generateRoomCode(rooms, in)
            IN /\ g.attempts <= maxAttempts + 1
               /\ g.threw = (\A k \in 1..maxAttempts :
                                CodeOf(in[k]) \in Keys(rooms))
               /\ ~g.threw => g.code \notin Keys(rooms))
    /\ [][ack'.called =>
            \/ IsCreateAck(ack') /\ Len(rooms') = Len(rooms) + 1
            \/ /\ ack' = GenerationError
               /\ rooms' = rooms
               /\ connected' = connected
               /\ Keys(rooms) # {}
         ]_vars

\* a createRoom failed although a code was free: 100 draws were taken
C5_Witness ==
    /\ ack = GenerationError
    /\ Len(rooms) = 1

\* C6: no room holds more than 4 players, and a joinRoom for a room that
\* has 4 players is answered with the capacity error, changes no room and
\* emits nothing.
C6_Capacity ==
    /\ [](\A i \in 1..Len(rooms) : Len(rooms[i].players) <= 4)
    /\ [][\A s \in connected, code \in Keys(rooms) :
            (OnJoinRoom(s, code) /\ Len(RoomOf(rooms, code).players) = 4) =>
                /\ ack' = Fail("Room is full (max 4 players)")
                /\ rooms' = rooms
                /\ emits' = <<>>
         ]_vars

\* a join was refused by a room of four while a fifth connection is live
C6_Witness ==
    /\ ack = Fail("Room is full (max 4 players)")
    /\ \E i \in 1..Len(rooms) :
        /\ Len(rooms[i].players) = 4
        /\ \E s \in connected : ~hasPlayer(rooms[i].players, s)

\* C7: a joinRoom that succeeds for a connection not yet in the room is
\* acknowledged with playerNumber = (players before) + 1 and isHost exactly
\* when that number is 1.
C7_JoinAck ==
    [][\A s \in connected, code \in Keys(rooms) :
         (/\ OnJoinRoom(s, code)
          /\ ~hasPlayer(RoomOf(rooms, code).players, s)
          /\ ack'.success) =>
             /\ ack'.playerNumber = Len(RoomOf(rooms, code).players) + 1
             /\ ack'.isHost = (ack'.playerNumber = 1)
             /\ Len(RoomOf(rooms, code).players) = 0 =>
                    (ack'.playerNumber = 1 /\ ack'.isHost = TRUE)
             /\ Len(RoomOf(rooms, code).players) = 1 =>
                    (ack'.playerNumber = 2 /\ ack'.isHost = FALSE)
      ]_vars

\* the second joiner of a room has been acknowledged
C7_Witness ==
    /\ ack.called /\ ack.success
    /\ "playerNumber" \in DOMAIN ack
    /\ ack.playerNumber = 2 /\ ack.isHost = FALSE
    /\ \E i \in 1..Len(rooms) : Len(rooms[i].players) = 2

\* C8 as stated: in a room with players, hostSocketId is the socket of the
\* player whose isHost flag is true.
C8_HostIsFirstJoiner ==
    \A i \in 1..Len(rooms) :
        \A k \in 1..Len(rooms[i].players) :
            rooms[i].players[k].isHost =>
                rooms[i].hostSocketId = rooms[i].players[k].socketId

\* C8, amended: hostSocketId is the connection that created the room and
\* stays that connection for as long as the room exists, whoever joins or
\* leaves; the player with isHost is the one numbered 1.
C8_HostIsCreator ==
    /\ [][IsCreateAck(ack') =>
            \A s \in connected :
                OnCreateRoom(s, LobbyDraws) =>
                    /\ RoomOf(rooms', ack'.roomCode).hostSocketId = s
                    /\ RoomOf(rooms', ack'.roomCode).players = <<>>
         ]_vars
    /\ [][\A code \in Keys(rooms) \cap Keys(rooms') :
            RoomOf(rooms', code).hostSocketId = RoomOf(rooms, code).hostSocketId
         ]_vars
    /\ [](\A i \in 1..Len(rooms) :
            \A k \in 1..Len(rooms[i].players) :
                rooms[i].players[k].isHost =
                    (rooms[i].players[k].playerNumber = 1))

\* a room of two whose isHost player is not the connection that hosts it:
\* the creator joined its own room second
C8_Witness ==
    \E i \in 1..Len(rooms) :
        /\ Len(rooms[i].players) = 2
        /\ rooms[i].players[1].isHost
        /\ rooms[i].players[1].socketId # rooms[i].hostSocketId
        /\ rooms[i].players[2].socketId = rooms[i].hostSocketId

\* C9: when a connection that is a player of a room but not its host
\* disconnects, it is removed from the room, the room stays with its
\* selections, gameStarted flag and host, and playerLeft with the remaining
\* roster and its count is emitted to the room.
C9_PlayerDisconnectLeavesRoom ==
    [][\A s \in connected :
         OnDisconnect(s) =>
            \A i \in 1..Len(rooms) :
                (hasPlayer(rooms[i].players, s) /\ rooms[i].hostSocketId # s) =>
                    /\ rooms[i].roomCode \in Keys(rooms')
                    /\ LET r == RoomOf(rooms', rooms[i].roomCode)
                       IN /\ ~hasPlayer(r.players, s)
                          /\ Len(r.players) = Len(rooms[i].players) - 1
                          /\ r.selectedMap = rooms[i].selectedMap
                          /\ r.gameMode = rooms[i].gameMode
                          /\ r.gameStarted = rooms[i].gameStarted
                          /\ r.hostSocketId = rooms[i].hostSocketId
                          /\ \E e \in Range(emits') :
                                /\ e.event = "playerLeft"
                                /\ e.to = rooms[i].roomCode
                                /\ e.data.players = r.players
                                /\ e.data.totalPlayers = Len(r.players)
      ]_vars

IsHostPlayer(s, code) ==
    /\ code \in Keys(rooms)
    /\ \E k \in 1..Len(RoomOf(rooms, code).players) :
            /\ RoomOf(rooms, code).players[k].socketId = s
            /\ RoomOf(rooms, code).players[k].isHost

\* C10: selectMap and selectGameMode change the room and are broadcast
\* only when the sender is the isHost player of that room; from any other
\* connection nothing changes, nothing is emitted and nothing is sent back.
C10_HostOnlySelection ==
    /\ [][\A s \in connected, code \in CodeInputs, m \in Maps :
            OnSelectMap(s, code, m) =>
                IF IsHostPlayer(s, code)
                THEN /\ RoomOf(rooms', code).selectedMap = m
                     /\ emits' = <<Emit("mapSelected", code, [mapId |-> m])>>
                ELSE rooms' = rooms /\ emits' = <<>> /\ ack' = NoAck
         ]_vars
    /\ [][\A s \in connected, code \in CodeInputs, g \in GameModes :
            OnSelectGameMode(s, code, g) =>
                IF IsHostPlayer(s, code)
                THEN /\ RoomOf(rooms', code).gameMode = g
                     /\ emits' = <<Emit("gameModeSelected", code,
                                        [gameMode |-> g])>>
                ELSE rooms' = rooms /\ emits' = <<>> /\ ack' = NoAck
         ]_vars
    /\ [][\A code \in Keys(rooms) \cap Keys(rooms') :
            /\ RoomOf(rooms', code).selectedMap # RoomOf(rooms, code).selectedMap
                  => \E s \in connected, m \in Maps :
                        IsHostPlayer(s, code) /\ OnSelectMap(s, code, m)
            /\ RoomOf(rooms', code).gameMode # RoomOf(rooms, code).gameMode
                  => \E s \in connected, g \in GameModes :
                        IsHostPlayer(s, code) /\ OnSelectGameMode(s, code, g)
            /\ (\E e \in Range(emits') :
                    /\ e.event \in {"mapSelected", "gameModeSelected"}
                    /\ e.to = code)
                  => \E s \in connected : IsHostPlayer(s, code)
         ]_vars

\* the host player of a room of two has selected a map and a mode
C10_Witness ==
    /\ emits # <<>>
    /\ emits[1].event = "mapSelected"
    /\ \E i \in 1..Len(rooms) :
        /\ Len(rooms[i].players) = 2
        /\ rooms[i].selectedMap = "beach"
        /\ rooms[i].gameMode = "battle"

\* C11: a gameStateUpdate changes no room and is never answered; it is
\* broadcast as gameState to the room when the room exists and the sender
\* is its hostSocketId, and otherwise nothing is emitted; and no gameState
\* is emitted to a room in any other way.
C11_HostOnlyGameState ==
    /\ [][\A s \in connected, code \in CodeInputs, st \in States :
            OnGameStateUpdate(s, code, st) =>
                /\ rooms' = rooms
                /\ ack' = NoAck
                /\ IF code \in Keys(rooms) /\ RoomOf(rooms, code).hostSocketId = s
                   THEN emits' = <<Emit("gameState", code,
                                        [state |-> st, timestamp |-> now])>>
                   ELSE emits' = <<>>
         ]_vars
    /\ [][\A e \in Range(emits') :
            e.event = "gameState" =>
                /\ e.to \in Keys(rooms)
                /\ \E s \in connected, st \in States :
                    /\ RoomOf(rooms, e.to).hostSocketId = s
                    /\ OnGameStateUpdate(s, e.to, st)
         ]_vars

\* the host's update was broadcast to a room of two players
C11_Witness ==
    /\ emits # <<>>
    /\ emits[1].event = "gameState"
    /\ \E i \in 1..Len(rooms) :
        /\ rooms[i].roomCode = emits[1].to
        /\ Len(rooms[i].players) = 2

\* the player of that connection in the room with that code (there is one)
PlayerOf(rs, code, s) ==
    RoomOf(rs, code).players[PlayerIndex(RoomOf(rs, code).players, s)]

\* C12: for every controllerInputSequenced from a player of an existing
\* room, valid or not, the player's stored input becomes the sanitized
\* sample and the sanitized sample is relayed to the host.
C12_InvalidInputDegrades ==
    [][\A s \in connected, code \in Keys(rooms) :
         \A in \in ServerInputs, sequence \in Sequences :
            (/\ OnControllerInputSequenced(s, code, in, sequence)
             /\ hasPlayer(RoomOf(rooms, code).players, s)) =>
                /\ PlayerOf(rooms', code, s).input =
                        validateInput(in, now).sanitized
                /\ \E e \in Range(emits') :
                    /\ e.event = "playerInputSequenced"
                    /\ e.to = RoomOf(rooms, code).hostSocketId
                    /\ e.data.input = validateInput(in, now).sanitized
      ]_vars

\* a number that is not NaN
IsNumeric(v) == typeof(v) = "number" /\ ~v.nan

\* C13: validate reports a sample invalid exactly when steering is not
\* numeric or lies outside [-1,1], or brake is not a boolean, or timestamp
\* is not numeric, is negative, is earlier than the last accepted timestamp
\* or is more than 1000 ms after it.
C13_ValidityCriteria ==
    \A in \in ValidatorInputs(lastTimestamp) :
        validate(in, lastTimestamp, now).valid =
            ~(\/ ~IsNumeric(in.steering)
              \/ Lt(in.steering, Num(-1, 1))
              \/ Lt(Num(1, 1), in.steering)
              \/ typeof(in.brake) # "boolean"
              \/ ~IsNumeric(in.timestamp)
              \/ Lt(in.timestamp, Num(0, 1))
              \/ Lt(in.timestamp, lastTimestamp)
              \/ Lt(Num(1000, 1), Minus(in.timestamp, lastTimestamp)))

\* C14: the sanitized sample validate returns has, for every input, a
\* steering within [-1,1], which is the input's steering clamped when that
\* is a number, and a boolean brake, the input's coerced; steering 2.5 is
\* rejected and sanitized to 1, steering -3 is sanitized to -1, and brake
\* "yes" is rejected and sanitized to true.
C14_SanitizedAlways ==
    \A in \in ValidatorInputs(lastTimestamp) :
        LET v == validate(in, lastTimestamp, now)
        IN /\ IsNumeric(v.sanitized.steering)
           /\ ~Lt(v.sanitized.steering, Num(-1, 1))
           /\ ~Lt(Num(1, 1), v.sanitized.steering)
           /\ IsNumeric(in.steering) =>
                v.sanitized.steering =
                    IF Lt(in.steering, Num(-1, 1)) THEN Num(-1, 1)
                    ELSE IF Lt(Num(1, 1), in.steering) THEN Num(1, 1)
                    ELSE in.steering
           /\ typeof(v.sanitized.brake) = "boolean"
           /\ v.sanitized.brake.b = Truthy(in.brake)
           /\ in.steering = Num(5, 2) =>
                (~v.valid /\ v.sanitized.steering = Num(1, 1))
           /\ in.steering = Num(-3, 1) => v.sanitized.steering = Num(-1, 1)
           /\ in.brake = Str("yes") =>
                (~v.valid /\ v.sanitized.brake = Bool(TRUE))

\* C15: the input stored on every Player has a steering within [-1,1] and a
\* boolean brake.
C15_StoredInputInRange ==
    \A i \in 1..Len(rooms) :
        \A k \in 1..Len(rooms[i].players) :
            LET in == rooms[i].players[k].input
            IN /\ IsNumeric(in.steering)
               /\ ~Lt(in.steering, Num(-1, 1))
               /\ ~Lt(Num(1, 1), in.steering)
               /\ typeof(in.brake) = "boolean"

\* the tracked player with that number (there is one)
Racer(gs, playerNumber) == gs.players[FindPlayer(gs.players, playerNumber)]

\* a passCheckpoint step of the race, for a tracked player
CheckpointStep(p, c) ==
    /\ FindPlayer(gameState.players, p) # 0
    /\ \/ PassCheckpoint(p, c, MaxLap)
       \/ PassCheckpoint(p, c, RaceLap)

\* C16: finishTime is null exactly while the player is not finished; the
\* passCheckpoint at which finished becomes true assigns now - raceStartTime;
\* and no passCheckpoint for a finished player changes finishTime.
C16_FinishTimeSetOnce ==
    /\ [](\A i \in 1..Len(gameState.players) :
            gameState.players[i].finished =
                (gameState.players[i].finishTime # JsNull))
    /\ [][\A p \in 1..FinishPlayers, c \in 1..checkpointsPerLap :
            CheckpointStep(p, c) =>
                /\ (~Racer(gameState, p).finished
                        /\ Racer(gameState', p).finished) =>
                     Racer(gameState', p).finishTime =
                        Minus(Num(now, 1), gameState.raceStartTime)
                /\ Racer(gameState, p).finished =>
                     Racer(gameState', p).finishTime =
                        Racer(gameState, p).finishTime
         ]_vars

\* C17: a finished player stays finished, and no passCheckpoint for a
\* finished player changes its currentLap or checkpointsPassed.
C17_FinishedIsTerminal ==
    [][\A p \in 1..FinishPlayers, c \in 1..checkpointsPerLap :
         (CheckpointStep(p, c) /\ Racer(gameState, p).finished) =>
            /\ Racer(gameState', p).finished
            /\ Racer(gameState', p).currentLap = Racer(gameState, p).currentLap
            /\ Racer(gameState', p).checkpointsPassed =
                    Racer(gameState, p).checkpointsPassed
      ]_vars

\* a is ahead of b: on a higher lap, or on the same lap with more checkpoints
Ahead(a, b) ==
    \/ a.currentLap > b.currentLap
    \/ /\ a.currentLap = b.currentLap
       /\ Len(a.checkpointsPassed) > Len(b.checkpointsPassed)

PositionsConsistent(gs) ==
    \A i, j \in 1..Len(gs.players) :
        Ahead(gs.players[i], gs.players[j]) =>
            gs.players[i].racePosition < gs.players[j].racePosition

\* C18: after every passCheckpoint and after every update, a player that is
\* ahead of another has the smaller racePosition.
C18_PositionsFollowProgress ==
    [][(\/ Update
        \/ \E p \in 1..RacePlayers, c \in 1..checkpointsPerLap :
                CheckpointStep(p, c))
            => PositionsConsistent(gameState')
      ]_vars

\* C19: the racePosition values of the tracked players are a permutation of
\* 1..N: every value of 1..N is taken, by exactly one player.
C19_PositionsArePermutation ==
    LET ps == gameState.players
    IN /\ {ps[i].racePosition : i \in 1..Len(ps)} = 1..Len(ps)
       /\ \A i, j \in 1..Len(ps) :
            ps[i].racePosition = ps[j].racePosition => i = j

\* an update has put the second of two players, who has moved, first
C19_Witness ==
    /\ returned.op = "update"
    /\ Len(gameState.players) = 2
    /\ gameState.players[2].racePosition = 1
    /\ gameState.players[2].position = Moved
    /\ gameState.tick > 0

\* C20: a passCheckpoint with an id the player has recorded for its current
\* lap leaves the GameState as it is; hence, short of the checkpoint that
\* completes the lap, a checkpoint delivered twice counts as delivered once.
C20_CheckpointSetSemantics ==
    /\ [](\A p \in 1..LapPlayers, c \in 1..checkpointsPerLap :
            FindPlayer(gameState.players, p) # 0 =>
                LET once == passCheckpoint(gameState, p, c, now)
                    player == Racer(gameState, p)
                IN /\ includes(player.checkpointsPassed, c) =>
                        once = gameState
                   /\ Racer(once, p).currentLap = player.currentLap =>
                        passCheckpoint(once, p, c, now) = once)
    /\ [][\A p \in 1..LapPlayers, c \in 1..checkpointsPerLap :
            (/\ FindPlayer(gameState.players, p) # 0
             /\ includes(Racer(gameState, p).checkpointsPassed, c)
             /\ PassCheckpoint(p, c, RaceLap)) =>
                gameState' = gameState
         ]_vars

\* a checkpoint was reported in a race of two players who have recorded
\* three and four checkpoints of their lap
C20_Witness ==
    /\ returned.op = "passCheckpoint"
    /\ Len(gameState.players) = 2
    /\ Len(gameState.players[1].checkpointsPassed) = 3
    /\ Len(gameState.players[2].checkpointsPassed) = 4

\* the distinct checkpoints a player has recorded once c is reported too
Distinct(player, c) ==
    Cardinality(Range(player.checkpointsPassed) \cup {c})

\* C21: at a passCheckpoint for a tracked player the lap changes exactly
\* when the distinct checkpoints recorded for the lap, the reported one
\* included, reach 5 through a new one; then currentLap grows by one, the
\* checkpoints are cleared, and the player is finished exactly when the new
\* lap exceeds maxLaps; otherwise lap and finished stay as they were.
C21_LapAdvance ==
    [][returned'.op = "passCheckpoint" =>
        \A p \in 1..LapsPlayers, c \in 1..checkpointsPerLap :
            (FindPlayer(gameState.players, p) # 0
                /\ PassCheckpoint(p, c, MaxLap)) =>
                LET before == Racer(gameState, p)
                    after == Racer(gameState', p)
                    complete ==
                        /\ ~includes(before.checkpointsPassed, c)
                        /\ Distinct(before, c) = 5
                IN /\ (after.currentLap # before.currentLap) = complete
                   /\ Distinct(before, c) < 5 =>
                        after.currentLap = before.currentLap
                   /\ IF complete
                      THEN /\ after.currentLap = before.currentLap + 1
                           /\ after.checkpointsPassed = <<>>
                           /\ after.finished = (after.currentLap > maxLaps)
                      ELSE after.finished = before.finished
      ]_vars

\* the fifth checkpoint of the last lap was reported: the player, one of
\* two, is finished on lap maxLaps + 1 with no checkpoints recorded
C21_Witness ==
    /\ returned.op = "passCheckpoint"
    /\ Len(gameState.players) = 2
    /\ gameState.players[2].finished
    /\ gameState.players[2].currentLap = maxLaps + 1
    /\ gameState.players[2].checkpointsPassed = <<>>
    /\ gameState.players[1].currentLap = 2
    /\ Len(gameState.players[1].checkpointsPassed) = 4

\* C22: raceEndTime is null whenever some tracked player is not finished,
\* and once it is set no step changes it.
C22_RaceEndSetOnce ==
    /\ []((\E i \in 1..Len(gameState.players) :
                ~gameState.players[i].finished)
            => gameState.raceEndTime = JsNull)
    /\ [][gameState.raceEndTime # JsNull =>
            gameState'.raceEndTime = gameState.raceEndTime]_vars

\* the sequence numbers of the entries of a buffer, in buffer order
SequencesOf(inputs) == [i \in 1..Len(inputs) |-> inputs[i].sequence]

\* the numbers from..to in ascending order
Ascending(from, to) == [i \in 1..(to - from + 1) |-> from + i - 1]

\* the buffer holds the last bufferSize of the sequenceNumber entries added
IsWindow(buf) ==
    SequencesOf(buf.inputs) =
        Ascending(IF buf.sequenceNumber - buf.bufferSize + 1 > 1
                  THEN buf.sequenceNumber - buf.bufferSize + 1 ELSE 1,
                  buf.sequenceNumber)

\* C23: the buffer never holds more than bufferSize entries; a new and a
\* cleared buffer hold none, and as long as only addInput is called, after n
\* calls the buffer holds the sequences max(1, n - bufferSize + 1)..n in
\* ascending order; with bufferSize 60, 2..61 after 61 calls.
C23_SlidingWindow ==
    /\ [](Len(inputBuffer.inputs) <= inputBuffer.bufferSize)
    /\ [][returned'.op \in {"new InputBuffer", "clear"} =>
            IsWindow(inputBuffer') /\ inputBuffer'.sequenceNumber = 0]_vars
    /\ [][(AddInput(Sample) /\ IsWindow(inputBuffer)) =>
            /\ IsWindow(inputBuffer')
            /\ inputBuffer'.sequenceNumber = inputBuffer.sequenceNumber + 1
            /\ (inputBuffer.bufferSize = 60
                    /\ inputBuffer'.sequenceNumber = 61) =>
                  SequencesOf(inputBuffer'.inputs) = Ascending(2, 61)
         ]_vars

\* the 61st addInput on a buffer of 60 has evicted the entry numbered 1
C23_Witness ==
    /\ returned.op = "addInput"
    /\ returned.bufferedInput.sequence = 61
    /\ inputBuffer.bufferSize = 60
    /\ inputBuffer.lastAcknowledgedSequence = Num(0, 1)
    /\ Len(inputBuffer.inputs) = 60
    /\ inputBuffer.inputs[1].sequence = 2
    /\ inputBuffer.inputs[60].sequence = 61

\* C24: the first addInput of a new or cleared buffer returns sequence 1
\* and every addInput returns the sequence before plus one, which becomes
\* the current one; no other call but clear changes the current sequence;
\* the buffered sequences are distinct and at most the current one.
C24_SequenceNumbers ==
    /\ [](\A i \in 1..Len(inputBuffer.inputs) :
            /\ inputBuffer.inputs[i].sequence <= inputBuffer.sequenceNumber
            /\ inputBuffer.inputs[i].sequence >= 1
            /\ \A j \in 1..Len(inputBuffer.inputs) :
                inputBuffer.inputs[i].sequence = inputBuffer.inputs[j].sequence
                    => i = j)
    /\ [][AddInput(Sample) =>
            /\ returned'.bufferedInput.sequence =
                    inputBuffer.sequenceNumber + 1
            /\ inputBuffer'.sequenceNumber = inputBuffer.sequenceNumber + 1
            /\ inputBuffer.sequenceNumber = 0 =>
                    returned'.bufferedInput.sequence = 1
            /\ inputBuffer'.inputs[Len(inputBuffer'.inputs)] =
                    returned'.bufferedInput
         ]_vars
    /\ [][inputBuffer'.sequenceNumber # inputBuffer.sequenceNumber =>
            \/ returned'.op = "addInput"
            \/ /\ returned'.op \in {"clear", "new InputBuffer"}
               /\ inputBuffer'.sequenceNumber = 0
         ]_vars

\* an addInput after an acknowledge and an eviction: the buffer of two
\* holds the sequences 5 and 6, of which 4 is the acknowledged one
C24_Witness ==
    /\ returned.op = "addInput"
    /\ inputBuffer.bufferSize = SmallBuffer
    /\ inputBuffer.lastAcknowledgedSequence = Num(4, 1)
    /\ inputBuffer.sequenceNumber = 6
    /\ SequencesOf(inputBuffer.inputs) = <<5, 6>>

\* the integer sequence k is at most the number s
AtMost(k, s) == k * s.d <= s.n

\* C25: acknowledge(s), s a number, records s as lastAcknowledgedSequence
\* and removes exactly the entries with sequence <= s; the entries above s
\* stay, in their order; getInputsSince(s) then returns the whole buffer;
\* and the current sequence is as it was.
C25_AcknowledgeWatermark ==
    [][returned'.op = "acknowledge" =>
        LET s == returned'.sequence
        IN  Acknowledge(s) =>
                /\ inputBuffer'.lastAcknowledgedSequence = s
                /\ inputBuffer'.inputs =
                        SelectSeq(inputBuffer.inputs,
                                  LAMBDA e : ~AtMost(e.sequence, s))
                /\ \A i \in 1..Len(inputBuffer.inputs) :
                        (inputBuffer.inputs[i] \in Range(inputBuffer'.inputs))
                            = ~AtMost(inputBuffer.inputs[i].sequence, s)
                /\ getInputsSince(inputBuffer', s) = inputBuffer'.inputs
                /\ inputBuffer'.sequenceNumber = inputBuffer.sequenceNumber
                /\ inputBuffer'.bufferSize = inputBuffer.bufferSize
      ]_vars

\* acknowledge(50) after 61 addInput calls: the sequences 51..61 remain
C25_Witness ==
    /\ returned.op = "acknowledge"
    /\ inputBuffer.lastAcknowledgedSequence = Num(50, 1)
    /\ inputBuffer.sequenceNumber = 61
    /\ SequencesOf(inputBuffer.inputs) = Ascending(51, 61)

\* the ids of the timers that are active
Active(ts) == {id \in 1..Len(ts) : ts[id]}

\* C26: at most one timer is active, the one pingInterval holds; a start
\* with a socket leaves exactly the timer it created active, whether the
\* monitor was running or not, and a start without one changes nothing; a
\* stop leaves no timer active and, on a stopped monitor, changes nothing.
C26_OneTimer ==
    /\ [](/\ Cardinality(Active(timers)) <= 1
          /\ Active(timers) =
                IF Truthy(latencyMonitor.pingInterval)
                THEN {latencyMonitor.pingInterval.n} ELSE {})
    /\ [][returned'.op = "start" =>
            \A socket \in MonitorSockets :
                Start(socket) =>
                    IF socket = ClientSocket
                    THEN /\ Active(timers') = {Len(timers) + 1}
                         /\ Len(timers') = Len(timers) + 1
                         /\ Active(timers) \cap Active(timers') = {}
                    ELSE timers' = timers /\ latencyMonitor' = latencyMonitor
         ]_vars
    /\ [][(returned'.op = "stop" /\ Stop) =>
            /\ Active(timers') = {}
            /\ Len(timers') = Len(timers)
            /\ Active(timers) = {} =>
                    (timers' = timers /\ latencyMonitor' = latencyMonitor)
         ]_vars

\* a running monitor was started again: its first timer is cancelled and
\* its second one is active
C26_Witness ==
    /\ returned.op = "start"
    /\ timers = <<FALSE, TRUE>>
    /\ latencyMonitor.pingInterval = Num(2, 1)

\* C27: a recordPing invokes every registered callback once, in the order
\* of registration, each with the statistics recomputed for the sample,
\* whether or not callbacks before it throw; and the monitor is afterwards
\* what it would be with no callback registered, but for the callbacks.
C27_ObserversIsolated ==
    [][returned'.op = "recordPing" =>
        \A latency \in ObserverLatencies :
            RecordPing(latency) =>
                LET callbacks == latencyMonitor.updateCallbacks
                    alone == recordPing(
                        [latencyMonitor EXCEPT !.updateCallbacks = <<>>],
                        latency).monitor
                IN /\ Len(calls') = Len(callbacks)
                   /\ \A i \in 1..Len(callbacks) :
                        /\ calls'[i].callback = callbacks[i]
                        /\ calls'[i].stats = getStats(latencyMonitor')
                        /\ calls'[i].stats.current = latency
                        /\ calls'[i].stats.samples =
                                Len(latencyMonitor.pings) + 1
                   /\ latencyMonitor' =
                        [alone EXCEPT !.updateCallbacks = callbacks]
      ]_vars

\* a sample was recorded with three observers of which the second throws:
\* the third was invoked
C27_Witness ==
    /\ returned.op = "recordPing"
    /\ latencyMonitor.updateCallbacks =
            <<Fn("shows", FALSE), Fn("throws", TRUE), Fn("shows", FALSE)>>
    /\ Len(calls) = 3
    /\ calls[3].callback = Fn("shows", FALSE)
    /\ latencyMonitor.pings = <<40, 60>>
    /\ calls[3].stats.average = 50

\* the tier of an average latency
Tier(average) ==
    CASE average < 50 -> "excellent"
      [] 50 <= average /\ average < 100 -> "good"
      [] 100 <= average /\ average < 150 -> "fair"
      [] 150 <= average /\ average < 250 -> "poor"
      [] average >= 250 -> "bad"

\* C28: getQuality returns the tier of averageLatency, by bands closed
\* below and open above, 40 being excellent and 120 fair, and changes
\* nothing.
C28_QualityTiers ==
    /\ [](/\ getQuality(latencyMonitor).rating =
                Tier(latencyMonitor.averageLatency)
          /\ latencyMonitor.averageLatency = 40 =>
                getQuality(latencyMonitor).rating = "excellent"
          /\ latencyMonitor.averageLatency = 120 =>
                getQuality(latencyMonitor).rating = "fair")
    /\ [][(returned'.op = "getQuality" /\ GetQuality) =>
            /\ returned'.quality.rating = Tier(latencyMonitor.averageLatency)
            /\ latencyMonitor' = latencyMonitor
         ]_vars

\* the quality was asked for at an average of 100, the lower end of fair,
\* of two samples
C28_Witness ==
    /\ returned.op = "getQuality"
    /\ returned.quality.rating = "fair"
    /\ latencyMonitor.averageLatency = 100
    /\ Len(latencyMonitor.pings) = 2

\* C29: addPlayer for a connection that is a player of the room returns
\* that player and leaves the players, with their numbers and flags, as they
\* are; no room has two players of the same connection.
C29_AddPlayerIdempotent ==
    /\ [](\A i \in 1..Len(rooms) :
            \A k, l \in 1..Len(rooms[i].players) :
                rooms[i].players[k].socketId = rooms[i].players[l].socketId
                    => k = l)
    /\ [][returned'.op = "addPlayer" =>
            \A s \in 1..RoomSockets :
                (RoomAddPlayer(s) /\ hasPlayer(rooms[1].players, s)) =>
                    /\ rooms' = rooms
                    /\ returned'.player \in Range(rooms[1].players)
                    /\ returned'.player.socketId = s
         ]_vars

\* addPlayer was called for the connection of the second of three players
C29_Witness ==
    /\ returned.op = "addPlayer"
    /\ Len(rooms[1].players) = 3
    /\ returned.player = rooms[1].players[2]

\* a room without players that was created more than 60 minutes before t
IsIdle(r, t) == Len(r.players) = 0 /\ t - r.createdAt > 60 * 60 * 1000

\* C30: a sweep removes the rooms that have no players and are older than
\* 60 minutes and no others, leaves the other rooms as they are and in
\* their order, and returns the number of rooms it removed.
C30_IdleSweep ==
    /\ [][(Cleanup \/ CleanupInactiveRooms) =>
            /\ \A i \in 1..Len(rooms) :
                    (rooms[i].roomCode \notin Keys(rooms')) =
                        IsIdle(rooms[i], now)
            /\ rooms' = SelectSeq(rooms, LAMBDA r : ~IsIdle(r, now))
         ]_vars
    /\ [][CleanupInactiveRooms =>
            returned'.cleanedCount = Len(rooms) - Len(rooms')]_vars
    /\ [](cleanupInactiveRooms(rooms, now).cleanedCount =
            Cardinality({i \in 1..Len(rooms) : IsIdle(rooms[i], now)}))

\* a sweep has removed one room and kept one that is as old and has a
\* player
C30_Witness ==
    /\ returned.op = "cleanupInactiveRooms"
    /\ returned.cleanedCount = 1
    /\ Len(rooms) = 1
    /\ Len(rooms[1].players) = 1
    /\ now - rooms[1].createdAt > 60 * 60 * 1000

(***************************************************************************)
(* C31: the buffer only ever retains unacknowledged input: after any       *)
(* sequence of addInput, acknowledge and clear calls, every buffered entry *)
(* has a sequence greater than lastAcknowledgedSequence, so                *)
(* getUnacknowledgedInputs() returns exactly the contents of the buffer.   *)
(* acknowledge stores its argument as the watermark without comparing it   *)
(* with sequenceNumber, so after acknowledge(50) on a buffer that has      *)
(* issued fewer than 50 sequences the next addInput is buffered below the  *)
(* watermark.                                                              *)
(***************************************************************************)
C31_OnlyUnacknowledged ==
    /\ \A i \in 1..Len(inputBuffer.inputs) :
           Gt(Num(inputBuffer.inputs[i].sequence, 1),
              inputBuffer.lastAcknowledgedSequence)
    /\ getUnacknowledgedInputs(inputBuffer) = inputBuffer.inputs

(***************************************************************************)
(* C32: the last-accepted timestamp of the validator changes only on a     *)
(* fully valid sample: a validate call that reports an error (in steering, *)
(* brake or timestamp) leaves lastTimestamp as it was, and a call that     *)
(* reports no error sets it to the timestamp of that sample.               *)
(***************************************************************************)
C32_TimestampOnValidOnly ==
    [][returned'.op = "validate" /\ Validate(returned'.input) =>
          /\ returned'.valid = (returned'.errors = <<>>)
          /\ returned'.errors # <<>> => lastTimestamp' = lastTimestamp
          /\ returned'.errors = <<>> =>
                 lastTimestamp' = returned'.input.timestamp]_vars

\* a sample was rejected after one with a later timestamp had been accepted
C32_Witness ==
    /\ returned.op = "validate"
    /\ returned.errors # <<>>
    /\ ~lastTimestamp.nan
    /\ lastTimestamp.n > 0

\* the connections of a player list, in list order
SocketIds(players) == [k \in 1..Len(players) |-> players[k].socketId]

(***************************************************************************)
(* C33: Room.removePlayer preserves the join order of the remaining        *)
(* players: after removing a present connection the remaining players      *)
(* appear in the same relative order as before, are numbered 1..N-1 in     *)
(* that order, and the earliest remaining joiner is the only isHost;       *)
(* removing a connection that is not in the room returns null and changes  *)
(* nothing.                                                                *)
(***************************************************************************)
C33_RemoveKeepsOrder ==
    [][\A s \in 1..RoomSockets :
          RoomRemovePlayer(s) =>
              LET before == rooms[1].players
                  after == rooms'[1].players
              IN IF hasPlayer(before, s)
                 THEN /\ SocketIds(after) =
                            SelectSeq(SocketIds(before), LAMBDA x : x # s)
                      /\ Len(after) = Len(before) - 1
                      /\ \A k \in 1..Len(after) :
                            /\ after[k].playerNumber = k
                            /\ after[k].isHost = (k = 1)
                            /\ \E j \in 1..Len(before) :
                                  before[j] =
                                      [after[k] EXCEPT
                                          !.playerNumber = before[j].playerNumber,
                                          !.isHost = before[j].isHost]
                      /\ "player" \in DOMAIN returned'
                      /\ returned'.player \in Range(before)
                      /\ returned'.player.socketId = s
                 ELSE /\ "null" \in DOMAIN returned'
                      /\ rooms' = rooms]_vars

\* the first of four players was removed and three remain; and a removal of
\* an absent connection is covered by the same steps
C33_Witness ==
    /\ returned.op = "removePlayer"
    /\ "player" \in DOMAIN returned
    /\ returned.player.playerNumber = 1
    /\ returned.player.isHost
    /\ Len(rooms[1].players) = 3

\* the last n elements of a sequence, or all of it
LastOf(q, n) ==
    IF Len(q) <= n THEN q ELSE SubSeq(q, Len(q) - n + 1, Len(q))

(***************************************************************************)
(* C34: the latency sample window is bounded: after any number of recorded *)
(* round trips the window holds at most 30 samples, namely the most recent *)
(* ones in arrival order (the oldest is evicted on overflow), and the      *)
(* current latency equals the sample recorded last.                        *)
(***************************************************************************)
C34_BoundedWindow ==
    [][/\ Len(latencyMonitor'.pings) <= 30
       /\ \A latency \in WindowLatencies(latencyMonitor) :
             RecordRoundTrip(latency) =>
                 /\ latencyMonitor'.pings =
                        LastOf(Append(latencyMonitor.pings, latency), 30)
                 /\ latencyMonitor'.currentLatency = latency
                 /\ latencyMonitor'.pings[Len(latencyMonitor'.pings)] =
                        latencyMonitor'.currentLatency]_vars

\* the window is full and the first round trip, of one millisecond, is no
\* longer in it
C34_Witness ==
    /\ Len(latencyMonitor.pings) = 30
    /\ latencyMonitor.pings[1] = 2
    /\ latencyMonitor.currentLatency = 31

(***************************************************************************)
(* C35: after the disconnect of a connection has been handled, no room     *)
(* that remains in the registry lists that connection as one of its        *)
(* players, also when the connection had joined more than one room, or was *)
(* the host of one room and a player of another.  The disconnect handler   *)
(* acts on the one room findRoomBySocketId returns, the first in insertion *)
(* order, and the connection stays in the player lists of the others.      *)
(***************************************************************************)
C35_NoPlayerAfterDisconnect ==
    \A s \in closed :
        \A i \in 1..Len(rooms) : ~hasPlayer(rooms[i].players, s)

(***************************************************************************)
(* C36: the gameStarted flag of a room changes from false to true only on  *)
(* a startGame message sent by the host connection of that room: a         *)
(* startGame from a connection that is neither the hostSocketId of the     *)
(* room nor its isHost player leaves gameStarted unchanged and emits no    *)
(* gameStarting broadcast; once true the flag never returns to false.      *)
(* The startGame handler looks the room up by its code and sets the flag   *)
(* without looking at the sender.                                          *)
(***************************************************************************)
C36_HostOnlyStart ==
    [][/\ \A s \in Sockets, code \in CodeInputs :
             (/\ OnStartGame(s, code)
              /\ code \in Keys(rooms)
              /\ RoomOf(rooms, code).hostSocketId # s
              /\ ~IsHostPlayer(s, code))
             => /\ RoomOf(rooms', code).gameStarted
                    = RoomOf(rooms, code).gameStarted
                /\ \A k \in 1..Len(emits') :
                      emits'[k].event # "gameStarting"
       /\ \A code \in Keys(rooms) \cap Keys(rooms') :
             /\ RoomOf(rooms, code).gameStarted
                    => RoomOf(rooms', code).gameStarted
             /\ (~RoomOf(rooms, code).gameStarted
                     /\ RoomOf(rooms', code).gameStarted)
                    => \E s \in Sockets : OnStartGame(s, code)]_vars

\* the flag, once set, stays set until the room is deleted, and is set by
\* startGame steps only
C36_StartedIsKept ==
    [][\A code \in Keys(rooms) \cap Keys(rooms') :
          /\ RoomOf(rooms, code).gameStarted
                 => RoomOf(rooms', code).gameStarted
          /\ (~RoomOf(rooms, code).gameStarted
                  /\ RoomOf(rooms', code).gameStarted)
                 => \E s \in Sockets : OnStartGame(s, code)]_vars

(***************************************************************************)
(* C37: joinRoom is idempotent for a connection that is already a player   *)
(* of the room: for every room size from 1 up to the capacity of 4, a      *)
(* repeated joinRoom from that connection is acknowledged as a success     *)
(* that carries its existing playerNumber and isHost, and the player list  *)
(* of the room is unchanged.  The handler tests the capacity before it     *)
(* calls addPlayer, so in a room of 4 the repeated joinRoom of a player is *)
(* answered with "Room is full".                                           *)
(***************************************************************************)
C37_RejoinIdempotent ==
    [][\A s \in connected, code \in Keys(rooms) :
          (/\ OnJoinRoom(s, code)
           /\ hasPlayer(RoomOf(rooms, code).players, s))
          => LET players == RoomOf(rooms, code).players
                 existing == players[PlayerIndex(players, s)]
             IN /\ ack'.success
                /\ "playerNumber" \in DOMAIN ack'
                /\ ack'.playerNumber = existing.playerNumber
                /\ ack'.isHost = existing.isHost
                /\ RoomOf(rooms', code).players = players]_vars

\* the same for the rooms that are not full
C37_RejoinBelowCapacity ==
    [][\A s \in connected, code \in Keys(rooms) :
          (/\ OnJoinRoom(s, code)
           /\ hasPlayer(RoomOf(rooms, code).players, s)
           /\ Len(RoomOf(rooms, code).players) < MaxPlayers)
          => LET players == RoomOf(rooms, code).players
                 existing == players[PlayerIndex(players, s)]
             IN /\ ack'.success
                /\ "playerNumber" \in DOMAIN ack'
                /\ ack'.playerNumber = existing.playerNumber
                /\ ack'.isHost = existing.isHost
                /\ RoomOf(rooms', code).players = players]_vars

(***************************************************************************)
(* C38: a rejected sample never permanently blocks a sender: after any     *)
(* rejected sample, if the sender keeps sending well-formed samples        *)
(* (steering in range, boolean brake) whose timestamps each advance by     *)
(* between 0 and 1000 ms over the sample it sent before, then some later   *)
(* sample is accepted as valid.  validate measures the advance from the    *)
(* timestamp it accepted last, which a rejected sample does not move, so   *)
(* once the sender is more than 1000 ms past it every later sample is      *)
(* rejected as well.                                                       *)
(***************************************************************************)
C38_EventuallyAccepted ==
    Rejected ~> (returned.op = "validate" /\ returned.valid)

\* a sender that is more than 1000 ms past the timestamp accepted last stays
\* so, and stays rejected, whatever well-formed sample it sends next
C38_BlockedStaysBlocked ==
    [][(/\ Rejected
        /\ returned.input.timestamp.n
               > lastTimestamp.n + timestampDeltaMax
        /\ KeepsSending)
       => /\ Rejected'
          /\ lastTimestamp' = lastTimestamp
          /\ returned'.input.timestamp.n >= returned.input.timestamp.n]_vars

\* what a LatencyMonitor has measured
Measured(m) ==
    <<m.pings, m.currentLatency, m.averageLatency, m.jitter>>

(***************************************************************************)
(* C39: a stopped latency monitor records nothing: between a stop() and    *)
(* the next start() the sample window, the current latency, the average    *)
(* and the jitter do not change and no observer is invoked, even when the  *)
(* reply to a probe sent before the stop arrives after it; and a probe     *)
(* whose reply never arrives contributes no sample.  stop cancels the      *)
(* timer only: the callback of a ping in flight still calls recordPing     *)
(* when the reply arrives.                                                 *)
(***************************************************************************)
C39_StoppedRecordsNothing ==
    [][/\ (~Truthy(latencyMonitor.pingInterval)
               /\ ~Truthy(latencyMonitor'.pingInterval))
          => /\ Measured(latencyMonitor') = Measured(latencyMonitor)
             /\ calls' = calls
       /\ Measured(latencyMonitor') # Measured(latencyMonitor)
          => \E k \in 1..Len(probes) : PingReply(k)]_vars

\* samples come from replies only: a probe without a reply adds none
C39_SamplesFromReplies ==
    [][Measured(latencyMonitor') # Measured(latencyMonitor)
          => \E k \in 1..Len(probes) : PingReply(k)]_vars

\* the players of a race that has just begun
FreshPlayers(players, playerCount) ==
    /\ Len(players) = playerCount
    /\ \A k \in 1..Len(players) :
          /\ players[k].playerNumber = k
          /\ players[k].currentLap = 1
          /\ players[k].checkpointsPassed = <<>>
          /\ players[k].finished = FALSE
          /\ players[k].finishTime = JsNull
          /\ players[k].racePosition = k

(***************************************************************************)
(* C40: GameState.initialize(N) starts a fresh race whatever the state     *)
(* before: afterwards there are exactly N tracked players numbered 1..N,   *)
(* each on lap 1 with no checkpoint passed, not finished, finishTime null  *)
(* and racePosition equal to its player number, tick is 0, raceStartTime   *)
(* is set and raceEndTime is null.  initialize assigns players,            *)
(* raceStartTime and tick and leaves raceEndTime as the race before left   *)
(* it.                                                                     *)
(***************************************************************************)
C40_InitializeIsFresh ==
    [][\A playerCount \in 1..EndPlayers :
          Initialize(playerCount) =>
              /\ FreshPlayers(gameState'.players, playerCount)
              /\ gameState'.tick = 0
              /\ gameState'.raceStartTime = Num(now, 1)
              /\ Truthy(gameState'.raceStartTime)
              /\ gameState'.raceEndTime = JsNull]_vars

\* the same without the race end time
C40_InitializeResetsPlayers ==
    [][\A playerCount \in 1..EndPlayers :
          Initialize(playerCount) =>
              /\ FreshPlayers(gameState'.players, playerCount)
              /\ gameState'.tick = 0
              /\ gameState'.raceStartTime = Num(now, 1)
              /\ Truthy(gameState'.raceStartTime)]_vars

====
